---- MODULE Spec2Model ----
(***************************************************************************)
(* A model of the statement-of-work markdown engine                        *)
(* (src/app/markdown_parser.py): render_markdown and the functions it      *)
(* calls, run by one or by several concurrent callers.                     *)
(*                                                                         *)
(* Text is a sequence of symbols.  A symbol is one character (":", "\n",   *)
(* "<", "7", ...), or an atom that stands for a run of characters that     *)
(* the uses made of it never split: a directive or field word ("pricing",  *)
(* "discount"), a long run of digits, a piece of markup written by one of  *)
(* the f-string templates, or a character reference written by            *)
(* html.escape ("&lt;").  The Python string is the concatenation of the    *)
(* symbols.  Regular expressions are modelled by scanners that follow      *)
(* re's leftmost, greedy / lazy, backtracking semantics on the symbols.    *)
(***************************************************************************)
EXTENDS Integers, Sequences, FiniteSets, TLC

VARIABLES
    pc,           \* pc[c]: where caller c stands in render_markdown
    arg_text,     \* arg_text[c]: the text argument render_markdown was called with
    variables,    \* variables[c]: the variables argument (a mapping)
    text,         \* text[c]: the local `text` of render_markdown
    block_text,   \* block_text[c]: the local `text` of _process_custom_blocks
    inline_vars,  \* inline_vars[c]: the mapping returned by _extract_variables_block
    merged_vars,  \* merged_vars[c]: {**inline_vars, **variables}
    html,         \* html[c]: the value render_markdown returns
    raised,       \* raised[c]: the exception that left render_markdown, or "none"
    published_docs,  \* the table published_docs: id -> row
    rate_events,     \* _rate_events[ip]: the queue of request times of a client
    clock,           \* utc_now()
    captcha_token,   \* os.environ['PUBLISH_CAPTCHA_TOKEN'] ("": not set)
    request,         \* the last plugin request received
    response,        \* the answer to it
    guarded,         \* history: guarded[ip], for every request of a client to
                     \* a guarded endpoint in the last two windows its
                     \* instant and whether _enforce_rate_limit let it pass
    guard_pc,        \* guard_pc[w]: where worker thread w stands in the guard
    guard_now        \* guard_now[w]: the local `now` of _is_rate_limited

render_vars == <<pc, arg_text, variables, text, block_text, inline_vars,
                merged_vars, html, raised>>

guard_vars == <<guard_pc, guard_now>>

plugin_vars ==
    <<published_docs, rate_events, clock, captcha_token, request, response,
      guarded, guard_vars>>

vars == <<render_vars, plugin_vars>>

(***************************************************************************)
(* Bounds of the model.                                                    *)
(***************************************************************************)
MaxChunks == 2

\* the requests a client has in its queue at most, and the views of a
\* document
MaxQueued == 2
MaxViews == 2

\* the concurrent callers (request threads)
Calls == {"t1", "t2"}

(***************************************************************************)
(* Symbols and sequence helpers (str methods).                             *)
(***************************************************************************)
Digits == {"0", "1", "2", "3", "4", "5", "6", "7", "8", "9"}

\* A run of 5000 digit characters, carried as one symbol.
LongDigits == "9{5000}"

Letters == {"a", "b", "k", "x", "pricing", "timeline", "signature",
            "variables", "discount", "Discount", "tax", "Tax", "week",
            "Week", "wk", "total", "Total", "Inline", "Explicit",
            "Subtotal", "TOTAL"}

\* [\w_] of the placeholder pattern
WordSyms == Letters \cup Digits \cup {"_", LongDigits}

\* \s of the patterns, str.strip()
IsSpace(ch) == ch \in {" ", "\n"}

Min(S) == CHOOSE x \in S : \A y \in S : x <= y
Max(S) == CHOOSE x \in S : \A y \in S : x >= y

Slice(s, i, j) == IF i > j THEN <<>> ELSE SubSeq(s, i, j)

Contains(s, ch) == \E i \in 1..Len(s) : s[i] = ch

StartsAt(s, p, pat) ==
    /\ p >= 1
    /\ p + Len(pat) - 1 <= Len(s)
    /\ SubSeq(s, p, p + Len(pat) - 1) = pat

\* pat in s
HasSub(s, pat) == \E p \in 1..(Len(s) + 1) : Len(pat) = 0 \/ StartsAt(s, p, pat)

\* s.find(pat, from): the first index at or after `from` where pat starts, else 0
FindSub(s, pat, from) ==
    LET P == {p \in from..Len(s) : StartsAt(s, p, pat)}
    IN  IF P = {} THEN 0 ELSE Min(P)

RECURSIVE SkipSpace(_, _)
SkipSpace(s, i) ==
    IF i <= Len(s) /\ IsSpace(s[i]) THEN SkipSpace(s, i + 1) ELSE i

RECURSIVE SkipBack(_, _)
SkipBack(s, j) ==
    IF j >= 1 /\ IsSpace(s[j]) THEN SkipBack(s, j - 1) ELSE j

\* str.strip()
Strip(s) == Slice(s, SkipSpace(s, 1), SkipBack(s, Len(s)))

\* str.split(sep) for a separator of one or more symbols
RECURSIVE Split(_, _)
Split(s, sep) ==
    LET i == FindSub(s, sep, 1)
    IN  IF i = 0 THEN <<s>>
        ELSE <<Slice(s, 1, i - 1)>> \o Split(Slice(s, i + Len(sep), Len(s)), sep)

\* str.split(sep, 1)
SplitOnce(s, sep) ==
    LET i == FindSub(s, sep, 1)
    IN  <<Slice(s, 1, i - 1), Slice(s, i + Len(sep), Len(s))>>

RECURSIVE Cat(_)
Cat(ss) == IF Len(ss) = 0 THEN <<>> ELSE Head(ss) \o Cat(Tail(ss))

RECURSIVE Join(_, _)
Join(ss, sep) ==
    IF Len(ss) = 0 THEN <<>>
    ELSE IF Len(ss) = 1 THEN ss[1]
    ELSE ss[1] \o sep \o Join(Tail(ss), sep)

NL == <<"\n">>

(***************************************************************************)
(* Mappings (dict): functions from keys (symbol sequences) to values.      *)
(***************************************************************************)
EmptyDict == <<>>

Put(d, k, v) == [x \in (DOMAIN d) \cup {k} |-> IF x = k THEN v ELSE d[x]]

\* a faulty merge, {**b, **a}: the inline value wins
MergeInlineWins(a, b) ==
    [x \in (DOMAIN a) \cup (DOMAIN b) |-> IF x \in DOMAIN a THEN a[x] ELSE b[x]]

\* {**a, **b}
MergeDicts(a, b) ==
    [x \in (DOMAIN a) \cup (DOMAIN b) |-> IF x \in DOMAIN b THEN b[x] ELSE a[x]]

(***************************************************************************)
(* The fenced-block pattern  :::<name>\s*\n(.*?)\n:::  with re.DOTALL.     *)
(***************************************************************************)
Fence == <<":", ":", ":">>

NoMatch == [start |-> 0, cs |-> 0, ce |-> 0, end |-> 0]

\* The match of the pattern that starts at p, if there is one.  \s* is
\* greedy and may run over newlines; the \n that follows it is then the
\* last newline of the whitespace run from which a closing \n::: can still
\* be found; (.*?) is lazy, so the content ends at the first \n::: .
BlockMatchAt(s, p, name) ==
    IF ~StartsAt(s, p, Fence \o <<name>>) THEN NoMatch
    ELSE
        LET a == p + 4
            e == SkipSpace(s, a)
            close(k) == FindSub(s, NL \o Fence, k + 1)
            good == {k \in a..(e - 1) : s[k] = "\n" /\ close(k) # 0}
        IN  IF good = {} THEN NoMatch
            ELSE LET k == Max(good)
                     q == close(k)
                 IN  [start |-> p, cs |-> k + 1, ce |-> q - 1, end |-> q + 3]

\* The non-overlapping matches re.sub / re.finditer visit, left to right.
RECURSIVE FindBlocks(_, _, _)
FindBlocks(s, name, from) ==
    LET P == {p \in from..Len(s) : BlockMatchAt(s, p, name).start # 0}
    IN  IF P = {} THEN <<>>
        ELSE LET m == BlockMatchAt(s, Min(P), name)
             IN  <<m>> \o FindBlocks(s, name, m.end + 1)

BlockContent(s, m) == Slice(s, m.cs, m.ce)

\* re.sub over the matches ms: reps[i] is what the callback returns for
\* the i-th match
ReplaceBlocks(s, ms, reps) ==
    LET from(i) == IF i = 1 THEN 1 ELSE ms[i - 1].end + 1
        r[i \in 0..Len(ms)] ==
            IF i = 0 THEN <<>>
            ELSE r[i - 1] \o Slice(s, from(i), ms[i].start - 1)
                          \o reps[i]
    IN  r[Len(ms)] \o Slice(s, from(Len(ms) + 1), Len(s))

(***************************************************************************)
(* _extract_variables_block                                                *)
(***************************************************************************)
\* the loop body of parse_block, over the lines of one block
RECURSIVE ParseVarLines(_, _)
ParseVarLines(lines, acc) ==
    IF Len(lines) = 0 THEN acc
    ELSE LET line == Strip(Head(lines))
             kv == SplitOnce(line, <<":">>)
         IN  ParseVarLines(Tail(lines),
                 IF Contains(line, ":")
                 THEN Put(acc, Strip(kv[1]), Strip(kv[2]))
                 ELSE acc)

\* a faulty loop that keeps the first value of a key
RECURSIVE KeepFirstVarLines(_, _)
KeepFirstVarLines(lines, acc) ==
    IF Len(lines) = 0 THEN acc
    ELSE LET line == Strip(Head(lines))
             kv == SplitOnce(line, <<":">>)
         IN  KeepFirstVarLines(Tail(lines),
                 IF Contains(line, ":") /\ Strip(kv[1]) \notin DOMAIN acc
                 THEN Put(acc, Strip(kv[1]), Strip(kv[2]))
                 ELSE acc)

ParseBlockKeepFirst(content, acc) == KeepFirstVarLines(Split(Strip(content), NL), acc)

\* parse_block(match): updates extracted_vars
parse_block(content, acc) == ParseVarLines(Split(Strip(content), NL), acc)

\* return ''  (the block is removed)
Removed(ms) == [i \in 1..Len(ms) |-> <<>>]

_extract_variables_block(s) ==
    LET ms == FindBlocks(s, "variables", 1)
        ev[i \in 0..Len(ms)] ==
            IF i = 0 THEN EmptyDict
            ELSE parse_block(BlockContent(s, ms[i]), ev[i - 1])
    IN  [text |-> ReplaceBlocks(s, ms, Removed(ms)), vars |-> ev[Len(ms)]]

(***************************************************************************)
(* _substitute_variables:  \{\{\s*([\w_]+)\s*\}\}                          *)
(***************************************************************************)
RECURSIVE SkipWord(_, _)
SkipWord(s, i) ==
    IF i <= Len(s) /\ s[i] \in WordSyms THEN SkipWord(s, i + 1) ELSE i

\* the match of the placeholder pattern that starts at p (end = 0: none)
PlaceholderAt(s, p) ==
    IF ~StartsAt(s, p, <<"{", "{">>) THEN [end |-> 0, name |-> <<>>]
    ELSE
        LET n1 == SkipSpace(s, p + 2)
            n2 == SkipWord(s, n1)
            n3 == SkipSpace(s, n2)
        IN  IF n2 > n1 /\ StartsAt(s, n3, <<"}", "}">>)
            THEN [end |-> n3 + 1, name |-> SubSeq(s, n1, n2 - 1)]
            ELSE [end |-> 0, name |-> <<>>]

\* the non-overlapping matches re.sub visits, left to right
RECURSIVE FindPlaceholders(_, _)
FindPlaceholders(s, from) ==
    LET P == {p \in from..Len(s) : PlaceholderAt(s, p).end # 0}
    IN  IF P = {} THEN <<>>
        ELSE <<[start |-> Min(P), end |-> PlaceholderAt(s, Min(P)).end,
                name |-> PlaceholderAt(s, Min(P)).name]>>
                 \o FindPlaceholders(s, PlaceholderAt(s, Min(P)).end + 1)

\* a faulty replacer, variables.get(key, ''): an unresolved placeholder
\* is blanked
ReplacerBlank(s, m, d) == IF m.name \in DOMAIN d THEN d[m.name] ELSE <<>>

\* replacer(match): variables.get(key, match.group(0))
replacer(s, m, d) ==
    IF m.name \in DOMAIN d THEN d[m.name] ELSE SubSeq(s, m.start, m.end)

\* re.sub(pattern, replacer, text), ms being the matches
SubstituteMatches(s, ms, d) ==
    LET from(i) == IF i = 1 THEN 1 ELSE ms[i - 1].end + 1
        r[i \in 0..Len(ms)] ==
            IF i = 0 THEN <<>>
            ELSE r[i - 1] \o Slice(s, from(i), ms[i].start - 1)
                          \o replacer(s, ms[i], d)
    IN  r[Len(ms)] \o Slice(s, from(Len(ms) + 1), Len(s))

\* a faulty substitution that scans its own output once more
SubstituteRescan(s, d) ==
    LET once == SubstituteMatches(s, FindPlaceholders(s, 1), d)
    IN  SubstituteMatches(once, FindPlaceholders(once, 1), d)

_substitute_variables(s, d) == SubstituteMatches(s, FindPlaceholders(s, 1), d)

(***************************************************************************)
(* html.escape and the CommonMark renderer _MD (html: True, tables).       *)
(***************************************************************************)
\* Markup written by the f-string templates of the block renderers.
SigOpen == "<div class=\"sow-signatures\">\n"
SigBlockOpen == "<div class=\"sig-block\">\n"
SigFieldOpen == "  <div class=\"sig-field\"><span class=\"sig-label\">"
SigFieldMid == ":</span> <span class=\"sig-value\">"
SigFieldClose == "</span><div class=\"sig-line\"></div></div>\n"
SigParaOpen == "  <p>"
SigParaClose == "</p>\n"
DivCloseNL == "</div>\n"
DivClose == "</div>"
PricingOpen == "<div class=\"sow-pricing\">\n"
SummaryOpen == "<div class=\"pricing-summary\">"
SubtotalOpen == "<div><strong>Subtotal:</strong> "
DiscountOpen == "<div><strong>Discount ("
TaxOpen == "<div><strong>Tax ("
PctClose == "%):</strong> "
TotalOpen == "<div class=\"pricing-grand-total\"><strong>Total:</strong> "
TimelineOpen == "<div class=\"sow-timeline\">\n<h3>Project Timeline</h3>\n"
GanttOpen == "<div class=\"sow-gantt\"><h4>Gantt View</h4>"
GanttRowOpen == "<div class=\"gantt-row\"><div class=\"gantt-label\">"
GanttSpanOpen == " <span class=\"muted\">(W"
GanttSpanClose == ")</span></div><div class=\"gantt-track\">"
GanttBarOpen == "<div class=\"gantt-bar\" style=\"margin-left:"
GanttBarMid == "%;width:"
GanttBarClose == "%;\"></div></div></div>"

\* The characters html.escape(s, quote=True) replaces.
Special == {"&", "<", ">", "\"", "'"}

\* the markup atoms, and the character references escape() and the
\* CommonMark renderer write
Markup == {SigOpen, SigBlockOpen, SigFieldOpen, SigFieldMid, SigFieldClose,
           SigParaOpen, SigParaClose, DivCloseNL, DivClose, PricingOpen,
           SummaryOpen, SubtotalOpen, DiscountOpen, TaxOpen, PctClose,
           TotalOpen, TimelineOpen, GanttOpen, GanttRowOpen, GanttSpanOpen,
           GanttSpanClose, GanttBarOpen, GanttBarMid, GanttBarClose}
Entities == {"&amp;", "&lt;", "&gt;", "&quot;", "&#x27;"}

\* one character of html.escape; of an atom that holds special characters
\* (markup, a character reference), the atom with them replaced
EscapeChar(ch) ==
    CASE ch = "&" -> "&amp;"
      [] ch = "<" -> "&lt;"
      [] ch = ">" -> "&gt;"
      [] ch = "\"" -> "&quot;"
      [] ch = "'" -> "&#x27;"
      [] ch \in Markup \cup Entities -> "escape(" \o ch \o ")"
      [] OTHER -> ch

\* html.escape
escape(s) == [i \in 1..Len(s) |-> EscapeChar(s[i])]

\* markdown-it's escapeHtml: text characters; the apostrophe is kept
MdEscapeChar(ch) ==
    CASE ch = "&" -> "&amp;"
      [] ch = "<" -> "&lt;"
      [] ch = ">" -> "&gt;"
      [] ch = "\"" -> "&quot;"
      [] OTHER -> ch

\* An HTML open tag  <name>  starting at p: with html: True the renderer
\* passes it through as it is (html_inline / html_block).  0: none.
RawTagAt(s, p) ==
    IF p + 2 <= Len(s) /\ s[p] = "<" /\ s[p + 1] \in Letters
    THEN LET n == SkipWord(s, p + 1)
         IN  IF n <= Len(s) /\ s[n] = ">" THEN n ELSE 0
    ELSE 0

\* position p lies in a raw tag
InRawTag(s, p) == \E q \in 1..p : RawTagAt(s, q) >= p

\* the inline pass over the characters
MdInline(s) ==
    [p \in 1..Len(s) |-> IF InRawTag(s, p) THEN s[p] ELSE MdEscapeChar(s[p])]

\* _MD.render: what the external CommonMark renderer does to the
\* characters of its input.  Raw HTML tags and the markup and character
\* references already in the text pass through, the other special
\* characters of text are escaped.  The block markup it adds (<p>, <ul>,
\* <table>) is not modelled.
_render_inner_markdown(s) == MdInline(s)

(***************************************************************************)
(* Signature block renderer                                                *)
(***************************************************************************)
\* [line.strip() for line in section.split('\n') if line.strip()]
RECURSIVE NonEmptyStripped(_)
NonEmptyStripped(lines) ==
    IF Len(lines) = 0 THEN <<>>
    ELSE LET l == Strip(Head(lines))
         IN  (IF Len(l) > 0 THEN <<l>> ELSE <<>>) \o NonEmptyStripped(Tail(lines))

\* a faulty loop that also keeps the sections without a line
RECURSIVE KeepEmptySections(_)
KeepEmptySections(sections) ==
    IF Len(sections) = 0 THEN <<>>
    ELSE <<NonEmptyStripped(Split(Head(sections), NL))>>
             \o KeepEmptySections(Tail(sections))

RECURSIVE SectionsToBlocks(_)
SectionsToBlocks(sections) ==
    IF Len(sections) = 0 THEN <<>>
    ELSE LET lines == NonEmptyStripped(Split(Head(sections), NL))
         IN  (IF Len(lines) > 0 THEN <<lines>> ELSE <<>>)
                 \o SectionsToBlocks(Tail(sections))

_signature_blocks(content) ==
    SectionsToBlocks(Split(Strip(content), <<"-", "-", "-">>))

\* a faulty line renderer: the value is written as it stands
RenderValueRaw(line) ==
    IF ~Contains(line, ":")
    THEN <<SigParaOpen>> \o escape(line) \o <<SigParaClose>>
    ELSE LET lv == SplitOnce(line, <<":">>)
         IN  <<SigFieldOpen>> \o escape(Strip(lv[1])) \o <<SigFieldMid>>
                 \o Strip(lv[2]) \o <<SigFieldClose>>

_render_signature_line(line) ==
    IF ~Contains(line, ":")
    THEN <<SigParaOpen>> \o escape(line) \o <<SigParaClose>>
    ELSE LET lv == SplitOnce(line, <<":">>)
         IN  <<SigFieldOpen>> \o escape(Strip(lv[1])) \o <<SigFieldMid>>
                 \o escape(Strip(lv[2])) \o <<SigFieldClose>>

_build_sig_block(lines) ==
    <<SigBlockOpen>>
        \o Cat([i \in 1..Len(lines) |-> _render_signature_line(lines[i])])
        \o <<DivCloseNL>>

_render_signature_block(content) ==
    LET blocks == _signature_blocks(content)
    IN  <<SigOpen>>
            \o Cat([i \in 1..Len(blocks) |-> _build_sig_block(blocks[i])])
            \o <<DivClose>>

(***************************************************************************)
(* Numbers.  Amounts are carried in cents and percentages as whole         *)
(* numbers (the documents of the model write amounts with at most two      *)
(* decimals and whole-number percentages); derived amounts are carried in  *)
(* 1/10000 of a cent, in which the two percentage steps are exact.         *)
(***************************************************************************)
DigitVal(ch) ==
    CASE ch = "0" -> 0 [] ch = "1" -> 1 [] ch = "2" -> 2 [] ch = "3" -> 3
      [] ch = "4" -> 4 [] ch = "5" -> 5 [] ch = "6" -> 6 [] ch = "7" -> 7
      [] ch = "8" -> 8 [] ch = "9" -> 9

IsDigit(ch) == ch \in Digits \cup {LongDigits}

RECURSIVE SkipDigits(_, _)
SkipDigits(s, i) ==
    IF i <= Len(s) /\ IsDigit(s[i]) THEN SkipDigits(s, i + 1) ELSE i

\* the number of characters of a run of digit symbols
RECURSIVE DigitCount(_)
DigitCount(ds) ==
    IF Len(ds) = 0 THEN 0
    ELSE (IF Head(ds) = LongDigits THEN 5000 ELSE 1) + DigitCount(Tail(ds))

\* the value of a run of digit characters
RECURSIVE IntOf(_)
IntOf(ds) ==
    IF Len(ds) = 0 THEN 0
    ELSE IntOf(SubSeq(ds, 1, Len(ds) - 1)) * 10 + DigitVal(ds[Len(ds)])

\* int(str) raises ValueError beyond sys.int_max_str_digits (CPython's
\* default, in force from 3.10.7 and 3.11 on)
IntMaxStrDigits == 4300
IntRaises(ds) == DigitCount(ds) > IntMaxStrDigits

Abs(n) == IF n < 0 THEN -n ELSE n

\* n / d rounded to the nearest integer, ties to even (d > 0)
RoundDiv(n, d) ==
    LET a == Abs(n)
        q == a \div d
        r == a % d
        up == IF 2 * r > d \/ (2 * r = d /\ q % 2 = 1) THEN q + 1 ELSE q
    IN  IF n < 0 THEN -up ELSE up

TwoDigits(n) == IF n < 10 THEN "0" \o ToString(n) ELSE ToString(n)

\* f'{x:.2f}' of x = h / 100
Fixed2(neg, h) ==
    (IF neg THEN "-" ELSE "") \o ToString(h \div 100) \o "." \o TwoDigits(h % 100)

CentUnits == 100 * 100

\* float(cleaned) as cents; ok = FALSE where float() raises ValueError
ParseFloat(cleaned) ==
    LET neg == Len(cleaned) > 0 /\ cleaned[1] = "-"
        body == IF neg THEN Tail(cleaned) ELSE cleaned
        d1 == SkipDigits(body, 1)
        dot == d1 <= Len(body) /\ body[d1] = "."
        d2 == IF dot THEN SkipDigits(body, d1 + 1) ELSE d1
        ip == Slice(body, 1, d1 - 1)
        fp == IF dot THEN Slice(body, d1 + 1, d2 - 1) ELSE <<>>
        f2 == SubSeq(fp \o <<"0", "0">>, 1, 2)
        ok == d2 = Len(body) + 1 /\ Len(ip) + Len(fp) > 0
        mag == IntOf(ip) * 100 + IntOf(f2)
    IN  [ok |-> ok, val |-> IF ~ok THEN 0 ELSE IF neg THEN -mag ELSE mag]

IsMoneyChar(ch) == ch \in Digits \cup {".", "-"}

\* re.sub(r'[^0-9.\-]', '', value), then float()
_parse_money(value) == ParseFloat(SelectSeq(value, IsMoneyChar))

\* f'${amount:.2f}', the amount in 1/10000 cent
_format_money(u) == "$" \o Fixed2(u < 0, Abs(RoundDiv(u, CentUnits)))

DiscountWords == {"discount", "Discount"}
TaxWords == {"tax", "Tax"}
\* the words w of the model with 'total' in w.lower()
TotalWords == {"total", "Total", "Subtotal", "TOTAL"}

\* re.match(rf'^{field}\s*:', line, IGNORECASE), then the first number
\* -?\d+(\.\d+)? of the line, as a whole number
_extract_percent(line, field) ==
    LET c == SkipSpace(line, 2)
        head == Len(line) >= 1 /\ line[1] \in field
                    /\ c <= Len(line) /\ line[c] = ":"
        P == {p \in 1..Len(line) :
                \/ line[p] \in Digits
                \/ line[p] = "-" /\ p + 1 <= Len(line) /\ line[p + 1] \in Digits}
        p0 == Min(P)
        neg == line[p0] = "-"
        b == IF neg THEN p0 + 1 ELSE p0
        mag == IntOf(SubSeq(line, b, SkipDigits(line, b) - 1))
    IN  IF ~head \/ P = {} THEN [ok |-> FALSE, val |-> 0]
        ELSE [ok |-> TRUE, val |-> IF neg THEN -mag ELSE mag]

IsSeparatorChar(ch) == ch \in {"-", ":", "|"} \/ IsSpace(ch)

\* [cell.strip() for cell in line.split('|') if cell.strip()]
Cells(line) == NonEmptyStripped(Split(line, <<"|">>))

\* a faulty test of the first cell: cells[0] == 'total'
TableAmountExactTotal(line) ==
    LET cells == Cells(line)
        none == [ok |-> FALSE, val |-> 0]
    IN  IF ~Contains(line, "|") \/ (\A i \in 1..Len(line) : IsSeparatorChar(line[i]))
        THEN none
        ELSE IF Len(cells) < 2 THEN none
        ELSE IF cells[1] = <<"total">> THEN none
        ELSE _parse_money(cells[Len(cells)])

_extract_table_amount(line) ==
    LET cells == Cells(line)
        none == [ok |-> FALSE, val |-> 0]
    IN  IF ~Contains(line, "|") \/ (\A i \in 1..Len(line) : IsSeparatorChar(line[i]))
        THEN none
        ELSE IF Len(cells) < 2 THEN none
        ELSE IF \E i \in 1..Len(cells[1]) : cells[1][i] \in TotalWords THEN none
        ELSE _parse_money(cells[Len(cells)])

\* one line of the loop of _summarize_pricing_values: d, t, a are what
\* _extract_percent (discount, tax) and _extract_table_amount returned
SummarizeLine(acc, d, t, a) ==
    IF d.ok THEN [acc EXCEPT !.discount_pct = d.val]
    ELSE IF t.ok THEN [acc EXCEPT !.tax_pct = t.val]
    ELSE IF a.ok THEN [acc EXCEPT !.subtotal = @ + a.val]
    ELSE acc

SummarizeStripped(acc, line) ==
    SummarizeLine(acc, _extract_percent(line, DiscountWords),
                  _extract_percent(line, TaxWords), _extract_table_amount(line))

\* a faulty loop that ends at the first row whose last cell does not parse
RECURSIVE SummarizeUntilUnparsed(_, _)
SummarizeUntilUnparsed(lines, acc) ==
    IF Len(lines) = 0 THEN acc
    ELSE IF /\ Len(Cells(Strip(Head(lines)))) >= 2
            /\ ~_parse_money(Cells(Strip(Head(lines)))[Len(Cells(Strip(Head(lines))))]).ok
    THEN acc
    ELSE SummarizeUntilUnparsed(Tail(lines), SummarizeStripped(acc, Strip(Head(lines))))

RECURSIVE SummarizeLines(_, _)
SummarizeLines(lines, acc) ==
    IF Len(lines) = 0 THEN acc
    ELSE SummarizeLines(Tail(lines), SummarizeStripped(acc, Strip(Head(lines))))

_summarize_pricing_values(content) ==
    SummarizeLines(Split(content, NL),
                   [subtotal |-> 0, discount_pct |-> 0, tax_pct |-> 0])

\* the amounts of _build_pricing_summary, in 1/10000 cent, from the
\* (subtotal, discount_pct, tax_pct) of _summarize_pricing_values; one
\* operator for each assignment

\* grand_total = discounted + tax_amount
WithGrandTotal(v, subtotal, discount_amount, discounted, tax_amount) ==
    [subtotal |-> subtotal, discount_pct |-> v.discount_pct,
     tax_pct |-> v.tax_pct, discount_amount |-> discount_amount,
     discounted |-> discounted, tax_amount |-> tax_amount,
     grand_total |-> discounted + tax_amount]

\* a faulty step: the tax is taken on the raw subtotal
TaxOnSubtotal(v, subtotal, discount_amount, discounted) ==
    WithGrandTotal(v, subtotal, discount_amount, discounted,
                   (subtotal \div 100) * v.tax_pct)

\* tax_amount = discounted * (tax_pct / 100.0)
WithTaxAmount(v, subtotal, discount_amount, discounted) ==
    WithGrandTotal(v, subtotal, discount_amount, discounted,
                   (discounted \div 100) * v.tax_pct)

\* discounted = subtotal - discount_amount
WithDiscounted(v, subtotal, discount_amount) ==
    WithTaxAmount(v, subtotal, discount_amount, subtotal - discount_amount)

\* discount_amount = subtotal * (discount_pct / 100.0)
Amounts(v) ==
    WithDiscounted(v, v.subtotal * CentUnits, v.subtotal * v.discount_pct * 100)

PricingAmounts(content) == Amounts(_summarize_pricing_values(content))

\* a faulty panel: the Discount and Tax lines are always written
SummaryAllLines(a) ==
    <<SummaryOpen, SubtotalOpen, _format_money(a.subtotal), DivClose,
      DiscountOpen, ToString(a.discount_pct), PctClose,
      "-" \o _format_money(a.discount_amount), DivClose,
      TaxOpen, ToString(a.tax_pct), PctClose, _format_money(a.tax_amount), DivClose,
      TotalOpen, _format_money(a.grand_total), DivClose, DivClose>>

\* the html of _build_pricing_summary
SummaryHtml(a) ==
    <<SummaryOpen, SubtotalOpen, _format_money(a.subtotal), DivClose>>
        \o (IF a.discount_pct # 0
            THEN <<DiscountOpen, ToString(a.discount_pct), PctClose,
                   "-" \o _format_money(a.discount_amount), DivClose>>
            ELSE <<>>)
        \o (IF a.tax_pct # 0
            THEN <<TaxOpen, ToString(a.tax_pct), PctClose,
                   _format_money(a.tax_amount), DivClose>>
            ELSE <<>>)
        \o <<TotalOpen, _format_money(a.grand_total), DivClose, DivClose>>

_build_pricing_summary(content) == SummaryHtml(PricingAmounts(content))

_render_pricing_block(content) ==
    <<PricingOpen>> \o _render_inner_markdown(content) \o NL
        \o _build_pricing_summary(content) \o <<"\n", DivClose>>

(***************************************************************************)
(* Timeline block renderer                                                 *)
(***************************************************************************)
WeekWords == {"week", "Week", "wk"}

NoEntry == [ok |-> FALSE, start |-> <<>>, end |-> <<>>, label |-> <<>>]

\* (?:week|wk)? at p: the index after it
AfterWeek(s, p) == IF p <= Len(s) /\ s[p] \in WeekWords THEN p + 1 ELSE p

\* \s*:\s*(.+)$ from i4, the week numbers being s[i1..j1-1] and s[i3..j3-1]
EntryTail(s, i1, j1, i3, j3, i4) ==
    IF j1 > i1 /\ j3 > i3 /\ i4 < Len(s) /\ s[i4] = ":"
    THEN [ok |-> TRUE, start |-> SubSeq(s, i1, j1 - 1),
          end |-> SubSeq(s, i3, j3 - 1),
          label |-> Strip(SubSeq(s, i4 + 1, Len(s)))]
    ELSE NoEntry

\* (\d+) from i3, after the hyphen
RangeEnd(s, i1, j1, i3) ==
    EntryTail(s, i1, j1, i3, SkipDigits(s, i3), SkipSpace(s, SkipDigits(s, i3)))

\* \s*-\s* from j1
RangeDash(s, i1, j1) ==
    IF SkipSpace(s, j1) <= Len(s) /\ s[SkipSpace(s, j1)] = "-"
    THEN RangeEnd(s, i1, j1, SkipSpace(s, SkipSpace(s, j1) + 1))
    ELSE NoEntry

RangeStart(s, i1) == RangeDash(s, i1, SkipDigits(s, i1))

PointStart(s, i1) ==
    EntryTail(s, i1, SkipDigits(s, i1), i1, SkipDigits(s, i1),
              SkipSpace(s, SkipDigits(s, i1)))

\* (?:week|wk)?\s*(\d+)\s*-\s*(\d+)\s*:\s*(.+)$  matched from p
RangeMatchAt(s, p) == RangeStart(s, SkipSpace(s, AfterWeek(s, p)))

\* (?:week|wk)?\s*(\d+)\s*:\s*(.+)$  matched from p
PointMatchAt(s, p) == PointStart(s, SkipSpace(s, AfterWeek(s, p)))

FirstOr(P) == IF P = {} THEN 0 ELSE Min(P)

\* re.search: the match at the leftmost position that has one
RangeSearch(entry) ==
    FirstOr({p \in 1..Len(entry) : RangeMatchAt(entry, p).ok})

PointSearch(entry) ==
    FirstOr({p \in 1..Len(entry) : PointMatchAt(entry, p).ok})

\* the range pattern first, then the point pattern; the week numbers are
\* still digit strings here
MatchAtFirst(entry, r, q) ==
    IF r # 0 THEN RangeMatchAt(entry, r)
    ELSE IF q # 0 THEN PointMatchAt(entry, q)
    ELSE NoEntry

TimelineMatch(entry) == MatchAtFirst(entry, RangeSearch(entry), PointSearch(entry))

\* the int() calls of _parse_timeline_entry raise ValueError
EntryRaises(m) == m.ok /\ (IntRaises(m.start) \/ IntRaises(m.end))

\* the dict _parse_timeline_entry builds from a match
EntryOf(m) ==
    [start |-> IntOf(m.start), end |-> IntOf(m.end), label |-> m.label]

_parse_timeline_entry(entry) == EntryOf(TimelineMatch(entry))

IsBullet(line) ==
    Len(line) >= 2 /\ line[1] \in {"-", "*"} /\ IsSpace(line[2])

\* re.sub(r'^[-*]\s+', '', line)
BulletEntry(line) == Slice(line, SkipSpace(line, 2), Len(line))

\* one line of the loop of _parse_timeline_rows: m is the match of its
\* entry; the loop ends at the first entry that makes int() raise
RowsAdd(acc, bullet, m) ==
    IF ~bullet \/ ~m.ok THEN acc
    ELSE IF EntryRaises(m) THEN [acc EXCEPT !.raises = TRUE]
    ELSE [acc EXCEPT !.rows = Append(@, EntryOf(m))]

RowsLine(acc, line) == RowsAdd(acc, IsBullet(line), TimelineMatch(BulletEntry(line)))

RECURSIVE TimelineRows(_, _)
TimelineRows(lines, acc) ==
    IF Len(lines) = 0 \/ acc.raises THEN acc
    ELSE TimelineRows(Tail(lines), RowsLine(acc, Strip(Head(lines))))

_parse_timeline_rows(content) ==
    TimelineRows(Split(content, NL), [raises |-> FALSE, rows |-> <<>>])

\* a faulty span that leaves out the last week
SpanWithoutLastWeek(rows) ==
    LET min_start == Min({rows[i].start : i \in 1..Len(rows)})
        max_end == Max({rows[i].end : i \in 1..Len(rows)})
    IN  [min_start |-> min_start, span |-> Max({1, max_end - min_start})]

_timeline_span(rows) ==
    LET min_start == Min({rows[i].start : i \in 1..Len(rows)})
        max_end == Max({rows[i].end : i \in 1..Len(rows)})
    IN  [min_start |-> min_start, span |-> Max({1, max_end - min_start + 1})]

\* Python's float is the IEEE-754 double: 53 significant bits, every
\* operation rounded to the nearest, ties to even.  The significand is a
\* natural number beyond the machine word, kept as its digits to the base
\* 2^15, the most significant first and no leading zero.
Base == 2^15

RECURSIVE BitLenSmall(_)
BitLenSmall(n) == IF n = 0 THEN 0 ELSE 1 + BitLenSmall(n \div 2)

LimbBits == BitLenSmall(Base - 1)

RECURSIVE Norm(_)
Norm(x) == IF Len(x) > 0 /\ x[1] = 0 THEN Norm(Tail(x)) ELSE x

Big(n) == Norm(<<n \div (Base * Base), (n \div Base) % Base, n % Base>>)

\* x * m + c, for m and c below the base
RECURSIVE MulAdd(_, _, _)
MulAdd(x, m, c) ==
    IF Len(x) = 0 THEN Norm(<<c>>)
    ELSE LET t == x[Len(x)] * m + c
         IN  Append(MulAdd(SubSeq(x, 1, Len(x) - 1), m, t \div Base),
                    t % Base)

\* quotient and remainder of x by d, for d below the base
RECURSIVE DivStep(_, _, _, _)
DivStep(x, d, r, q) ==
    IF Len(x) = 0 THEN [q |-> Norm(q), r |-> r]
    ELSE LET t == r * Base + Head(x)
         IN  DivStep(Tail(x), d, t % d, Append(q, t \div d))

DivSmall(x, d) == DivStep(x, d, 0, <<>>)

BitLen(x) ==
    IF Len(x) = 0 THEN 0 ELSE LimbBits * (Len(x) - 1) + BitLenSmall(x[1])

RECURSIVE MulPow2(_, _)
MulPow2(x, k) ==
    IF k = 0 \/ Len(x) = 0 THEN x
    ELSE IF k >= LimbBits THEN MulPow2(Append(x, 0), k - LimbBits)
    ELSE MulAdd(x, 2^k, 0)

\* x \div 2^k, and whether anything but zeros was shifted out
RECURSIVE DivPow2(_, _, _)
DivPow2(x, k, sticky) ==
    IF k = 0 \/ Len(x) = 0 THEN [q |-> x, sticky |-> sticky]
    ELSE IF k >= LimbBits
         THEN DivPow2(SubSeq(x, 1, Len(x) - 1), k - LimbBits,
                      sticky \/ x[Len(x)] # 0)
    ELSE LET d == DivSmall(x, 2^k)
         IN  [q |-> d.q, sticky |-> sticky \/ d.r # 0]

RECURSIVE ToInt(_)
ToInt(x) ==
    IF Len(x) = 0 THEN 0
    ELSE ToInt(SubSeq(x, 1, Len(x) - 1)) * Base + x[Len(x)]

\* x carries one bit more than wanted: drop it, rounding to the nearest
\* and a tie to even; sticky tells of a remainder below that bit
HalfEven(x, sticky) ==
    LET d == DivSmall(x, 2)
        odd == Len(d.q) > 0 /\ d.q[Len(d.q)] % 2 = 1
    IN  IF d.r = 1 /\ (sticky \/ odd) THEN MulAdd(d.q, 1, 1) ELSE d.q

\* a double m * 2^-e, zero with the empty significand
\* a / span of two ints, a >= 0: the correctly rounded quotient
FloatDiv(a, s) ==
    IF a = 0 THEN [m |-> <<>>, e |-> 0]
    ELSE LET e0 == 53 + BitLenSmall(s) - BitLenSmall(a)
             x0 == DivSmall(MulPow2(Big(a), e0), s)
             e1 == IF BitLen(x0.q) = 54 THEN e0 ELSE e0 + 1
             x == IF e1 = e0 THEN x0 ELSE DivSmall(MulPow2(Big(a), e1), s)
         IN  [m |-> HalfEven(x.q, x.r # 0), e |-> e1 - 1]

\* x * k for a double x and a small whole number k
FloatMul(x, k) ==
    LET p == MulAdd(x.m, k, 0)
        dr == BitLen(p) - 53
        d == DivPow2(p, dr - 1, FALSE)
    IN  IF dr <= 0 THEN [m |-> p, e |-> x.e]
        ELSE [m |-> HalfEven(d.q, d.sticky), e |-> x.e - dr]

\* the hundredths that format(x, '.2f') prints: the exact value of the
\* double rounded to two decimals, a tie to even
FloatHundredths(x) ==
    LET q == MulAdd(x.m, 100, 0)
        d == DivPow2(q, x.e - 1, FALSE)
    IN  IF x.e <= 0 THEN ToInt(MulPow2(q, -x.e))
        ELSE ToInt(HalfEven(d.q, d.sticky))

\* ((a / span) * 100) written with :.2f
Percent2(a, span) ==
    Fixed2(a < 0, FloatHundredths(FloatMul(FloatDiv(Abs(a), span), 100)))

_render_gantt_row(row, min_start, span) ==
    <<GanttRowOpen>> \o escape(row.label)
        \o <<GanttSpanOpen, ToString(row.start), "-W", ToString(row.end),
             GanttSpanClose, GanttBarOpen,
             Percent2(row.start - min_start, span), GanttBarMid,
             Percent2(row.end - row.start + 1, span), GanttBarClose>>

GanttRows(rows, sp) ==
    Cat([i \in 1..Len(rows) |-> _render_gantt_row(rows[i], sp.min_start, sp.span)])

\* a faulty builder that writes the container of a timeline without rows
GanttContainerAlways(rows) ==
    IF Len(rows) = 0 THEN <<GanttOpen, DivClose>>
    ELSE <<GanttOpen>> \o GanttRows(rows, _timeline_span(rows)) \o <<DivClose>>

GanttHtml(rows) ==
    IF Len(rows) = 0 THEN <<>>
    ELSE <<GanttOpen>> \o GanttRows(rows, _timeline_span(rows)) \o <<DivClose>>

_build_timeline_gantt(content) == GanttHtml(_parse_timeline_rows(content).rows)

_render_timeline_block(content) ==
    <<TimelineOpen>> \o _render_inner_markdown(content) \o NL
        \o _build_timeline_gantt(content) \o <<"\n", DivClose>>

\* an exception leaves _render_timeline_block
TimelineBlockRaises(content) == _parse_timeline_rows(content).raises

(***************************************************************************)
(* _process_custom_blocks: one re.sub per block type, in dict order.       *)
(***************************************************************************)
\* block_types[block_type](content)
renderer(block_type, content) ==
    CASE block_type = "pricing" -> _render_pricing_block(content)
      [] block_type = "timeline" -> _render_timeline_block(content)
      [] block_type = "signature" -> _render_signature_block(content)

\* compiled.sub(lambda match: renderer(match.group(1)), text)
SubBlocks(s, ms, block_type) ==
    ReplaceBlocks(s, ms,
        [i \in 1..Len(ms) |-> renderer(block_type, BlockContent(s, ms[i]))])

SubPricing(s) == SubBlocks(s, FindBlocks(s, "pricing", 1), "pricing")

SubTimeline(s) == SubBlocks(s, FindBlocks(s, "timeline", 1), "timeline")

SubSignature(s) == SubBlocks(s, FindBlocks(s, "signature", 1), "signature")

\* the renderer raises for one of the timeline matches
SubTimelineRaises(s) ==
    LET ms == FindBlocks(s, "timeline", 1)
    IN  \E i \in 1..Len(ms) : TimelineBlockRaises(BlockContent(s, ms[i]))

_process_custom_blocks(s) == SubSignature(SubTimeline(SubPricing(s)))

(***************************************************************************)
(* The sharing plugin (src/app/routes.py, src/app/services/                *)
(* publish_service.py).  The html of a publish request is a sequence of    *)
(* single characters.                                                      *)
(***************************************************************************)
Lowers == <<"a", "b", "c", "d", "e", "f", "g", "h", "i", "j", "k", "l", "m",
            "n", "o", "p", "q", "r", "s", "t", "u", "v", "w", "x", "y", "z">>
Uppers == <<"A", "B", "C", "D", "E", "F", "G", "H", "I", "J", "K", "L", "M",
            "N", "O", "P", "Q", "R", "S", "T", "U", "V", "W", "X", "Y", "Z">>

\* str.lower() of one character; re.IGNORECASE compares the lowered forms
LowerOf == [i \in 1..Len(Uppers) |-> Lowers[i]]

UpperSet == {Uppers[i] : i \in 1..Len(Uppers)}

Lower(ch) ==
    IF ch \in UpperSet
    THEN LowerOf[CHOOSE i \in 1..Len(Uppers) : Uppers[i] = ch]
    ELSE ch

LowerText(s) == [i \in 1..Len(s) |-> Lower(s[i])]

\* \w of the attribute patterns
WordChars == UpperSet \cup {Lowers[i] : i \in 1..Len(Lowers)} \cup Digits \cup {"_"}

IsWordChar(ch) == ch \in WordChars

\* the literal word (lower case) at p, whatever the case of the text
LitAt(s, p, word) ==
    /\ p >= 1
    /\ p + Len(word) - 1 <= Len(s)
    /\ \A i \in 1..Len(word) : Lower(s[p + i - 1]) = word[i]

RECURSIVE SkipWordChars(_, _)
SkipWordChars(s, i) ==
    IF i <= Len(s) /\ IsWordChar(s[i]) THEN SkipWordChars(s, i + 1) ELSE i

\* the first index at or after `from` that holds ch, else 0
FindChar(s, ch, from) == FirstOr({q \in from..Len(s) : s[q] = ch})

\* re.sub(pattern, '', s): ends[p] is the last index of the match of the
\* pattern that starts at p (0: none); the leftmost match is removed and
\* the scan goes on behind it
RECURSIVE RemoveFrom(_, _, _)
RemoveFrom(s, ends, from) ==
    LET P == {p \in from..Len(s) : ends[p] # 0}
    IN  IF P = {} THEN Slice(s, from, Len(s))
        ELSE Slice(s, from, Min(P) - 1) \o RemoveFrom(s, ends, ends[Min(P)] + 1)

\* <\s*{tag}[^>]*>  from p: the index of its '>'
OpenTagEnd(s, p, tag) ==
    IF p <= Len(s) /\ s[p] = "<" /\ LitAt(s, SkipSpace(s, p + 1), tag)
    THEN FindChar(s, ">", SkipSpace(s, p + 1) + Len(tag))
    ELSE 0

\* <\s*/\s*{tag}\s*>  from q: the index of its '>'
CloseTagEnd(s, q, tag) ==
    LET n1 == SkipSpace(s, q + 1)
        n2 == SkipSpace(s, n1 + 1)
        n3 == SkipSpace(s, n2 + Len(tag))
    IN  IF /\ s[q] = "<"
           /\ n1 <= Len(s) /\ s[n1] = "/"
           /\ LitAt(s, n2, tag)
           /\ n3 <= Len(s) /\ s[n3] = ">"
        THEN n3 ELSE 0

\* <\s*{tag}[^>]*>.*?<\s*/\s*{tag}\s*>  from p: .*? stops at the first
\* closing tag behind the opening one
TagPairEnd(s, p, tag) ==
    LET o == OpenTagEnd(s, p, tag)
        Q == {q \in (o + 1)..Len(s) : CloseTagEnd(s, q, tag) # 0}
    IN  IF o = 0 \/ Q = {} THEN 0 ELSE CloseTagEnd(s, Min(Q), tag)

\* one turn of the loop over the high-risk tags
StripTag(s, tag) == RemoveFrom(s, [p \in 1..Len(s) |-> TagPairEnd(s, p, tag)], 1)

RiskTags ==
    << <<"s", "c", "r", "i", "p", "t">>, <<"s", "t", "y", "l", "e">>,
       <<"i", "f", "r", "a", "m", "e">>, <<"o", "b", "j", "e", "c", "t">>,
       <<"e", "m", "b", "e", "d">>, <<"s", "v", "g">>, <<"m", "a", "t", "h">> >>

RECURSIVE StripTags(_, _)
StripTags(s, i) ==
    IF i > Len(RiskTags) THEN s ELSE StripTags(StripTag(s, RiskTags[i]), i + 1)

VoidTags == { <<"m", "e", "t", "a">>, <<"b", "a", "s", "e">>, <<"l", "i", "n", "k">> }

\* <\s*(meta|base|link)\b[^>]*>  from p
VoidTagEnd(s, p) ==
    LET n == SkipSpace(s, p + 1)
    IN  IF /\ p <= Len(s) /\ s[p] = "<"
           /\ \E tag \in VoidTags : LitAt(s, n, tag)
           /\ (n + 4 > Len(s) \/ ~IsWordChar(s[n + 4]))
        THEN FindChar(s, ">", n + 4)
        ELSE 0

RECURSIVE SkipValue(_, _)
SkipValue(s, i) ==
    IF i <= Len(s) /\ ~IsSpace(s[i]) /\ s[i] # ">" THEN SkipValue(s, i + 1) ELSE i

\* (".*?"|'.*?'|[^\s>]+)  from v: the last index of the value
AttrValueEnd(s, v) ==
    IF v > Len(s) THEN 0
    ELSE IF s[v] \in {"\"", "'"} /\ FindChar(s, s[v], v + 1) # 0
    THEN FindChar(s, s[v], v + 1)
    ELSE IF SkipValue(s, v) > v THEN SkipValue(s, v) - 1
    ELSE 0

\* \s*=\s*(value)  from e
AssignEnd(s, e) ==
    IF SkipSpace(s, e) <= Len(s) /\ s[SkipSpace(s, e)] = "="
    THEN AttrValueEnd(s, SkipSpace(s, SkipSpace(s, e) + 1))
    ELSE 0

\* \son\w+\s*=\s*(value)  from p
HandlerEnd(s, p) ==
    IF /\ p <= Len(s) /\ IsSpace(s[p])
       /\ LitAt(s, p + 1, <<"o", "n">>)
       /\ SkipWordChars(s, p + 3) > p + 3
    THEN AssignEnd(s, SkipWordChars(s, p + 3))
    ELSE 0

JavaScript == <<"j", "a", "v", "a", "s", "c", "r", "i", "p", "t">>

\* javascript\s*:  from p
ProtocolEnd(s, p) ==
    IF /\ LitAt(s, p, JavaScript)
       /\ SkipSpace(s, p + Len(JavaScript)) <= Len(s)
       /\ s[SkipSpace(s, p + Len(JavaScript))] = ":"
    THEN SkipSpace(s, p + Len(JavaScript))
    ELSE 0

SrcDoc == <<"s", "r", "c", "d", "o", "c">>

\* \ssrcdoc\s*=\s*(value)  from p
SrcDocEnd(s, p) ==
    IF p <= Len(s) /\ IsSpace(s[p]) /\ LitAt(s, p + 1, SrcDoc)
    THEN AssignEnd(s, p + 1 + Len(SrcDoc))
    ELSE 0

StripVoidTags(s) == RemoveFrom(s, [p \in 1..Len(s) |-> VoidTagEnd(s, p)], 1)

StripHandlers(s) == RemoveFrom(s, [p \in 1..Len(s) |-> HandlerEnd(s, p)], 1)

StripProtocols(s) == RemoveFrom(s, [p \in 1..Len(s) |-> ProtocolEnd(s, p)], 1)

StripSrcDoc(s) == RemoveFrom(s, [p \in 1..Len(s) |-> SrcDocEnd(s, p)], 1)

_sanitize_html(content) ==
    StripSrcDoc(StripProtocols(StripHandlers(StripVoidTags(StripTags(content, 1)))))

(***************************************************************************)
(* Time.  A datetime is [day, sec, us]: the day, the second of the day and *)
(* the microsecond of utc_now().  isoformat() writes fixed-width,          *)
(* zero-padded fields, the most significant first, the fraction only when  *)
(* the microsecond is not 0, then the UTC offset; the day field stands for *)
(* YYYY-MM-DD and the seconds field for HH:MM:SS.                          *)
(***************************************************************************)
Epoch == [day |-> 0, sec |-> 0, us |-> 0]

\* a < b for datetimes
TimeLess(a, b) ==
    \/ a.day < b.day
    \/ a.day = b.day /\ a.sec < b.sec
    \/ a.day = b.day /\ a.sec = b.sec /\ a.us < b.us

\* t + timedelta(days=n)
AddDays(t, n) == [t EXCEPT !.day = @ + n]

\* now - e > _RATE_WINDOW_SECONDS for the float timestamps of now and e
OlderThan(now, e, window) ==
    LET ds == (now.day - e.day) * 86400 + (now.sec - e.sec)
    IN  ds > window \/ (ds = window /\ now.us > e.us)

RECURSIVE Pow10(_)
Pow10(k) == IF k = 0 THEN 1 ELSE 10 * Pow10(k - 1)

\* n written with w digits
FixedDigits(n, w) == [i \in 1..w |-> ToString((n \div Pow10(w - i)) % 10)]

UtcOffset == <<"+", "0", "0", ":", "0", "0">>

\* datetime.isoformat()
isoformat(t) ==
    FixedDigits(t.day, 3) \o <<"T">> \o FixedDigits(t.sec, 5)
        \o (IF t.us = 0 THEN <<>> ELSE <<".">> \o FixedDigits(t.us, 6))
        \o UtcOffset

\* datetime.fromisoformat()
fromisoformat(s) ==
    [day |-> IntOf(SubSeq(s, 1, 3)), sec |-> IntOf(SubSeq(s, 5, 9)),
     us |-> IF s[10] = "." THEN IntOf(SubSeq(s, 11, 16)) ELSE 0]

\* ord() of the characters of an ISO text
CharCode(ch) ==
    CASE ch = "+" -> 43
      [] ch = "-" -> 45
      [] ch = "." -> 46
      [] ch = ":" -> 58
      [] ch = "T" -> 84
      [] OTHER -> 48 + DigitVal(ch)

\* a < b for texts, as SQLite compares TEXT values (character by character)
TextLess(a, b) ==
    LET D == {i \in 1..Min({Len(a), Len(b)}) : a[i] # b[i]}
    IN  IF D = {} THEN Len(a) < Len(b)
        ELSE CharCode(a[Min(D)]) < CharCode(b[Min(D)])

(***************************************************************************)
(* Request parsing.  A JSON text field is a sequence of symbols, <<>> for  *)
(* the empty string and for a missing key (both are falsy and take the     *)
(* default); an optional integer is <<>> (None) or <<n>>; a boolean field  *)
(* is "None", a JSON boolean ("True", "False") or a JSON string.           *)
(***************************************************************************)
_RATE_WINDOW_SECONDS == 60
_RATE_LIMIT_PER_WINDOW == 20
_CAPTCHA_THRESHOLD_PER_WINDOW == 10

_ALLOWED_TEMPLATES == {<<"modern">>, <<"classic">>, <<"minimal">>}
_ALLOWED_PAGE_SIZES == {<<"Letter">>, <<"A4">>, <<"Legal">>}
_ALLOWED_JURISDICTIONS ==
    {<<"US_BASE">>, <<"US_NY">>, <<"US_CA">>, <<"EU_BASE">>, <<"UK_BASE">>,
     <<"CA_BASE">>, <<"AU_BASE">>}

\* re.sub(r'[^a-zA-Z0-9_-]', '', raw): a token of secrets.token_urlsafe is
\* one symbol, made of such characters
TokenIds == {"tokA", "tokB"}

IsIdSymbol(x) == x \in TokenIds \/ IsWordChar(x) \/ x = "-"

_normalize_doc_id(raw) == SelectSeq(raw, IsIdSymbol)

\* (value or default).strip(), cut to max_len (<<>>: None) when given
_normalized_text(value, default, max_len) ==
    LET t == Strip(IF Len(value) = 0 THEN default ELSE value)
    IN  IF max_len = <<>> THEN t ELSE Slice(t, 1, Min({Len(t), max_len[1]}))

\* int(value), the default for None
_parse_int(value, default) == IF value = <<>> THEN default ELSE value

_parse_bool(value, default) ==
    CASE value = "None" -> default
      [] value = "True" -> TRUE
      [] value = "False" -> FALSE
      [] value \in {"1", "true", "yes", "y", "on"} -> TRUE
      [] value \in {"0", "false", "no", "n", "off"} -> FALSE
      [] OTHER -> default

_parse_publish_request(data) ==
    [title |-> _normalized_text(data.title, <<"Statement of Work">>, <<200>>),
     sanitized_html |-> _sanitize_html(_normalized_text(data.html, <<>>, <<>>)),
     expires_in_days |-> _parse_int(data.expires_in_days, <<30>>)[1],
     revision |-> _parse_int(data.revision, <<>>),
     signed |-> _parse_bool(data.signed, FALSE),
     signed_only |-> _parse_bool(data.signed_only, FALSE),
     template |-> _normalized_text(data.template, <<"modern">>, <<>>),
     page_size |-> _normalized_text(data.page_size, <<"Letter">>, <<>>),
     jurisdiction |->
         LET j == _normalized_text(data.jurisdiction, <<"US_BASE">>, <<32>>)
         IN  IF Len(j) = 0 THEN <<"US_BASE">> ELSE j]

(***************************************************************************)
(* publish_service.py.  The table published_docs is a function from the    *)
(* ids to the rows.  A service function returns the status of the answer   *)
(* (the status_code of the ServiceError it raises, 500 for an exception    *)
(* nothing catches), the error text and the table it leaves.               *)
(***************************************************************************)
ServiceError(message, status_code, db) ==
    [status |-> status_code, error |-> message, db |-> db]

Done(status_code, db) == [status |-> status_code, error |-> "", db |-> db]

\* the INSERT of create_published_document; a token that is already a key
\* violates the PRIMARY KEY
InsertRow(db, publish_id, row) ==
    IF publish_id \in DOMAIN db
    THEN ServiceError("IntegrityError", 500, db)
    ELSE Done(201, [i \in DOMAIN db \cup {publish_id} |->
                       IF i = publish_id THEN row ELSE db[i]])

\* a faulty create_published_document that checks the template after the
\* INSERT
CreateThenCheck(db, p, publish_id, now) ==
    LET row == [title |-> p.title, html |-> p.sanitized_html,
                created_at |-> isoformat(now),
                expires_at |-> isoformat(AddDays(now, Max({1, Min({365, p.expires_in_days})}))),
                revision |-> p.revision, signed |-> IF p.signed THEN 1 ELSE 0,
                jurisdiction |-> p.jurisdiction, template |-> p.template,
                page_size |-> p.page_size, deleted |-> 0, views |-> 0]
        ins == InsertRow(db, publish_id, row)
    IN  IF Len(p.sanitized_html) = 0 THEN ServiceError("html is required", 400, db)
        ELSE IF p.template \notin _ALLOWED_TEMPLATES
        THEN ServiceError("invalid template", 400, ins.db)
        ELSE ins

create_published_document(db, p, publish_id, now) ==
    IF Len(p.sanitized_html) = 0 THEN ServiceError("html is required", 400, db)
    ELSE IF p.signed_only /\ ~p.signed
    THEN ServiceError("signed_only publish requires signed=true", 400, db)
    ELSE IF p.revision # <<>> /\ p.revision[1] < 1
    THEN ServiceError("revision must be >= 1 when provided", 400, db)
    ELSE IF p.jurisdiction \notin _ALLOWED_JURISDICTIONS
    THEN ServiceError("invalid jurisdiction", 400, db)
    ELSE IF p.template \notin _ALLOWED_TEMPLATES
    THEN ServiceError("invalid template", 400, db)
    ELSE IF p.page_size \notin _ALLOWED_PAGE_SIZES
    THEN ServiceError("invalid page_size", 400, db)
    ELSE InsertRow(db, publish_id,
             [title |-> p.title, html |-> p.sanitized_html,
              created_at |-> isoformat(now),
              expires_at |-> isoformat(AddDays(now, Max({1, Min({365, p.expires_in_days})}))),
              revision |-> p.revision, signed |-> IF p.signed THEN 1 ELSE 0,
              jurisdiction |-> p.jurisdiction, template |-> p.template,
              page_size |-> p.page_size, deleted |-> 0, views |-> 0])

\* a faulty view that counts before it looks at the expiry
ViewCountsFirst(db, publish_id, now) ==
    IF publish_id \notin DOMAIN db \/ db[publish_id].deleted # 0
    THEN ServiceError("Not found", 404, db)
    ELSE IF TimeLess(fromisoformat(db[publish_id].expires_at), now)
    THEN ServiceError("Link expired", 410, [db EXCEPT ![publish_id].views = @ + 1])
    ELSE Done(200, [db EXCEPT ![publish_id].views = @ + 1])

get_public_published_document(db, publish_id, now) ==
    IF publish_id \notin DOMAIN db \/ db[publish_id].deleted # 0
    THEN ServiceError("Not found", 404, db)
    ELSE IF TimeLess(fromisoformat(db[publish_id].expires_at), now)
    THEN ServiceError("Link expired", 410, db)
    ELSE Done(200, [db EXCEPT ![publish_id].views = @ + 1])

\* UPDATE ... SET deleted = 1 WHERE id = ? AND deleted = 0; rowcount
\* the row for an email: the checks of the public view, no update
get_published_for_email(db, publish_id, now) ==
    IF publish_id \notin DOMAIN db \/ db[publish_id].deleted # 0
    THEN ServiceError("Not found", 404, db)
    ELSE IF TimeLess(fromisoformat(db[publish_id].expires_at), now)
    THEN ServiceError("Link expired", 410, db)
    ELSE Done(200, db)

\* the row of an id, deleted or not
get_published_metadata(db, publish_id) ==
    IF publish_id \notin DOMAIN db THEN ServiceError("Not found", 404, db)
    ELSE Done(200, db)

\* EMAIL_RE = ^[^@\s]+@[^@\s]+\.[^@\s]+$ on the stripped address: no
\* space, one @ with something before it, and after it a dot with
\* something on both sides
EmailMatch(a) ==
    /\ \A i \in 1..Len(a) : ~IsSpace(a[i])
    /\ \E k \in 2..Len(a) :
           /\ a[k] = "@"
           /\ \A i \in 1..Len(a) : a[i] = "@" => i = k
           /\ \E d \in (k + 2)..(Len(a) - 1) : a[d] = "."

\* send_published_email: the address is validated, then the SMTP delivery
\* succeeds or fails as the mail server decides (delivery: 200, 502, 503)
send_published_email(to_email, delivery) ==
    IF ~EmailMatch(Strip(to_email))
    THEN [status |-> 400, error |-> "valid to_email is required"]
    ELSE [status |-> delivery,
          error |-> CASE delivery = 200 -> ""
                      [] delivery = 502 -> "EmailSendError"
                      [] delivery = 503 -> "EmailConfigError"]

\* the UPDATE without its condition deleted = 0
DeleteAgainSucceeds(db, publish_id) ==
    IF publish_id \in DOMAIN db
    THEN Done(200, [db EXCEPT ![publish_id].deleted = 1])
    ELSE ServiceError("Not found", 404, db)

delete_published_document(db, publish_id) ==
    IF publish_id \in DOMAIN db /\ db[publish_id].deleted = 0
    THEN Done(200, [db EXCEPT ![publish_id].deleted = 1])
    ELSE ServiceError("Not found", 404, db)

\* the rows the UPDATE of the cleanup matches
ExpiredRows(db, timestamp) ==
    {i \in DOMAIN db : db[i].deleted = 0 /\ TextLess(db[i].expires_at, timestamp)}

\* a faulty cleanup whose UPDATE also matches the rows that expire at the
\* timestamp
CleanupInclusive(db, now) ==
    LET hit == {i \in DOMAIN db :
                   db[i].deleted = 0 /\ ~TextLess(isoformat(now), db[i].expires_at)}
    IN  [cleaned |-> Cardinality(hit),
         scanned |-> Cardinality({i \in DOMAIN db : db[i].deleted = 0}),
         timestamp |-> isoformat(now),
         db |-> [i \in DOMAIN db |->
                    IF i \in hit THEN [db[i] EXCEPT !.deleted = 1] ELSE db[i]]]

cleanup_expired_published_documents(db, now) ==
    [cleaned |-> Cardinality(ExpiredRows(db, isoformat(now))),
     scanned |-> Cardinality({i \in DOMAIN db : db[i].deleted = 0}),
     timestamp |-> isoformat(now),
     db |-> [i \in DOMAIN db |->
                IF i \in ExpiredRows(db, isoformat(now))
                THEN [db[i] EXCEPT !.deleted = 1] ELSE db[i]]]

(***************************************************************************)
(* The guard of the plugin endpoints: the per-IP event queue.              *)
(***************************************************************************)
\* while events and now - events[0] > _RATE_WINDOW_SECONDS: events.popleft()
RECURSIVE PruneEvents(_, _)
PruneEvents(events, now) ==
    IF Len(events) > 0 /\ OlderThan(now, Head(events), _RATE_WINDOW_SECONDS)
    THEN PruneEvents(Tail(events), now)
    ELSE events

\* the events of the last window never dropped
RateLimitedWithoutPruning(events, now) ==
    [events |-> Append(events, now),
     result |-> Len(events) + 1 > _RATE_LIMIT_PER_WINDOW]

\* the limit taken one event too late
RateLimitedAfterOneMore(events, now) ==
    [events |-> Append(PruneEvents(events, now), now),
     result |-> Len(PruneEvents(events, now)) > _RATE_LIMIT_PER_WINDOW]

_is_rate_limited(events, now) ==
    [events |-> Append(PruneEvents(events, now), now),
     result |-> Len(PruneEvents(events, now)) + 1 > _RATE_LIMIT_PER_WINDOW]

_needs_captcha(events, now) ==
    [events |-> PruneEvents(events, now),
     result |-> Len(PruneEvents(events, now)) > _CAPTCHA_THRESHOLD_PER_WINDOW]

\* _enforce_rate_limit, then _enforce_publish_captcha when required:
\* the queue it leaves and the answer that blocks the request (0: none)
_plugin_guard(events, now, require_captcha, required_token, supplied) ==
    LET limited == _is_rate_limited(events, now)
        captcha == _needs_captcha(limited.events, now)
    IN  IF limited.result
        THEN [events |-> limited.events, status |-> 429, error |-> "Too many requests"]
        ELSE IF ~require_captcha
        THEN [events |-> limited.events, status |-> 0, error |-> ""]
        ELSE IF captcha.result /\ required_token # "" /\ supplied # required_token
        THEN [events |-> captcha.events, status |-> 429,
              error |-> "Captcha verification required"]
        ELSE [events |-> captcha.events, status |-> 0, error |-> ""]

ClientIps == {"ip1", "ip2"}

\* the JSON object of a request without a body
NoData ==
    [title |-> <<>>, html |-> <<>>, expires_in_days |-> <<>>, revision |-> <<>>,
     signed |-> "None", signed_only |-> "None", template |-> <<>>,
     page_size |-> <<>>, jurisdiction |-> <<>>]

\* a request: the endpoint, the client, the X-Captcha-Token header, the
\* JSON object, the id in the URL
NoRequest ==
    [op |-> "none", ip |-> "", token |-> "", data |-> NoData, raw |-> <<>>,
     json |-> TRUE, to_email |-> <<>>]

\* POST /plugin/v1/p/<raw>/email: json tells whether the body is a JSON
\* object
EmailRequest(ip, raw, json, to_email) ==
    [NoRequest EXCEPT !.op = "email", !.ip = ip, !.raw = raw, !.json = json,
                      !.to_email = to_email]

PublishRequest(ip, token, data) ==
    [NoRequest EXCEPT !.op = "publish", !.ip = ip, !.token = token, !.data = data]

IdRequest(op, raw) == [NoRequest EXCEPT !.op = op, !.raw = raw]

\* the answer to the last request: status, error text, and the fields of
\* the JSON body the properties look at
NoResponse ==
    [op |-> "none", status |-> 0, error |-> "", publish_id |-> <<>>,
     cleaned |-> 0, scanned |-> 0, timestamp |-> <<>>, document |-> <<>>]

Answer(op, status, error, publish_id) ==
    [NoResponse EXCEPT !.op = op, !.status = status, !.error = error,
                       !.publish_id = publish_id]

\* the threads of the server that run request handlers side by side
Workers == {"w1", "w2"}

\* no document, no event, no request yet
PluginIdle ==
    /\ published_docs = <<>>
    /\ rate_events = [ip \in ClientIps |-> <<>>]
    /\ clock = Epoch
    /\ request = NoRequest
    /\ response = NoResponse
    /\ guarded = [ip \in ClientIps |-> <<>>]
    /\ guard_pc = [w \in Workers |-> "idle"]
    /\ guard_now = [w \in Workers |-> Epoch]


(***************************************************************************)
(* render_markdown, run by the callers of Calls.                           *)
(***************************************************************************)
\* a faulty store: extracted_vars a module-level dict all calls update
StoreShared(c, ev) == [d \in Calls |-> MergeDicts(inline_vars[d], ev)]

\* extracted_vars = {} is a local of each call of _extract_variables_block
StoreExtracted(c, ev) == [inline_vars EXCEPT ![c] = ev]

\* render_markdown(t, v) run on its own, from call to return
render_markdown(t, v) ==
    LET e == _extract_variables_block(t)
        m == MergeDicts(e.vars, v)
        s == _substitute_variables(e.text, m)
        b == _process_custom_blocks(s)
    IN  IF SubTimelineRaises(SubPricing(s))
        THEN [html |-> <<>>, raised |-> "ValueError"]
        ELSE [html |-> _render_inner_markdown(b), raised |-> "none"]

RenderIdle ==
    /\ pc = [c \in Calls |-> "idle"]
    /\ arg_text = [c \in Calls |-> <<>>]
    /\ variables = [c \in Calls |-> EmptyDict]
    /\ text = [c \in Calls |-> <<>>]
    /\ block_text = [c \in Calls |-> <<>>]
    /\ inline_vars = [c \in Calls |-> EmptyDict]
    /\ merged_vars = [c \in Calls |-> EmptyDict]
    /\ html = [c \in Calls |-> <<>>]
    /\ raised = [c \in Calls |-> "none"]

\* no call of render_markdown, no plugin request, no captcha token set
Init ==
    /\ RenderIdle
    /\ PluginIdle
    /\ captcha_token = ""

\* render_markdown(t, v) is called
Call(c, t, v) ==
    /\ pc[c] = "idle"
    /\ pc' = [pc EXCEPT ![c] = "extract"]
    /\ arg_text' = [arg_text EXCEPT ![c] = t]
    /\ variables' = [variables EXCEPT ![c] = v]
    /\ text' = [text EXCEPT ![c] = t]
    /\ UNCHANGED <<block_text, inline_vars, merged_vars, html, raised,
                 plugin_vars>>

\* text, inline_vars = _extract_variables_block(text)
ExtractVariables(c) ==
    /\ pc[c] = "extract"
    /\ text' = [text EXCEPT ![c] = _extract_variables_block(text[c]).text]
    /\ inline_vars' = StoreExtracted(c, _extract_variables_block(text[c]).vars)
    /\ pc' = [pc EXCEPT ![c] = "merge"]
    /\ UNCHANGED <<arg_text, variables, block_text, merged_vars, html, raised,
                 plugin_vars>>

\* merged_vars = {**inline_vars, **variables}
MergeVariables(c) ==
    /\ pc[c] = "merge"
    /\ merged_vars' = [merged_vars EXCEPT ![c] = MergeDicts(inline_vars[c], variables[c])]
    /\ pc' = [pc EXCEPT ![c] = "substitute"]
    /\ UNCHANGED <<arg_text, variables, text, block_text, inline_vars, html, raised,
                 plugin_vars>>

\* text = _substitute_variables(text, merged_vars)
SubstituteVariables(c) ==
    /\ pc[c] = "substitute"
    /\ text' = [text EXCEPT ![c] = _substitute_variables(text[c], merged_vars[c])]
    /\ pc' = [pc EXCEPT ![c] = "pricing"]
    /\ UNCHANGED <<arg_text, variables, block_text, inline_vars, merged_vars, html, raised,
                 plugin_vars>>

\* _process_custom_blocks(text) is entered; its pass over 'pricing'
ProcessPricing(c) ==
    /\ pc[c] = "pricing"
    /\ block_text' = [block_text EXCEPT ![c] = SubPricing(text[c])]
    /\ pc' = [pc EXCEPT ![c] = "timeline"]
    /\ UNCHANGED <<arg_text, variables, text, inline_vars, merged_vars, html, raised,
                 plugin_vars>>

\* _process_custom_blocks, the pass over 'timeline'; an exception of the
\* renderer is caught nowhere and leaves render_markdown
ProcessTimeline(c) ==
    /\ pc[c] = "timeline"
    /\ IF SubTimelineRaises(block_text[c])
       THEN /\ raised' = [raised EXCEPT ![c] = "ValueError"]
            /\ pc' = [pc EXCEPT ![c] = "done"]
            /\ UNCHANGED block_text
       ELSE /\ block_text' = [block_text EXCEPT ![c] = SubTimeline(block_text[c])]
            /\ pc' = [pc EXCEPT ![c] = "signature"]
            /\ UNCHANGED raised
    /\ UNCHANGED <<arg_text, variables, text, inline_vars, merged_vars, html,
                 plugin_vars>>

\* _process_custom_blocks, the pass over 'signature'
ProcessSignature(c) ==
    /\ pc[c] = "signature"
    /\ block_text' = [block_text EXCEPT ![c] = SubSignature(block_text[c])]
    /\ pc' = [pc EXCEPT ![c] = "assign"]
    /\ UNCHANGED <<arg_text, variables, text, inline_vars, merged_vars, html, raised,
                 plugin_vars>>

\* return text (of _process_custom_blocks); text = ... (of render_markdown)
AssignBlocks(c) ==
    /\ pc[c] = "assign"
    /\ text' = [text EXCEPT ![c] = block_text[c]]
    /\ block_text' = [block_text EXCEPT ![c] = <<>>]
    /\ pc' = [pc EXCEPT ![c] = "markdown"]
    /\ UNCHANGED <<arg_text, variables, inline_vars, merged_vars, html, raised,
                 plugin_vars>>

\* html = _MD.render(text); return html
RenderDocument(c) ==
    /\ pc[c] = "markdown"
    /\ html' = [html EXCEPT ![c] = _render_inner_markdown(text[c])]
    /\ pc' = [pc EXCEPT ![c] = "done"]
    /\ UNCHANGED <<arg_text, variables, text, block_text, inline_vars, merged_vars, raised,
                 plugin_vars>>

\* the caller has taken the result (or the exception); the frame is gone
Return(c) ==
    /\ pc[c] = "done"
    /\ pc' = [pc EXCEPT ![c] = "idle"]
    /\ arg_text' = [arg_text EXCEPT ![c] = <<>>]
    /\ variables' = [variables EXCEPT ![c] = EmptyDict]
    /\ text' = [text EXCEPT ![c] = <<>>]
    /\ block_text' = [block_text EXCEPT ![c] = <<>>]
    /\ inline_vars' = [inline_vars EXCEPT ![c] = EmptyDict]
    /\ merged_vars' = [merged_vars EXCEPT ![c] = EmptyDict]
    /\ html' = [html EXCEPT ![c] = <<>>]
    /\ raised' = [raised EXCEPT ![c] = "none"]
    /\ UNCHANGED plugin_vars

\* the steps of the callers C, on the texts T and the variable mappings V
NextOver(C, T, V) ==
    \/ \E c \in C, t \in T, v \in V : Call(c, t, v)
    \/ \E c \in C : ExtractVariables(c)
    \/ \E c \in C : MergeVariables(c)
    \/ \E c \in C : SubstituteVariables(c)
    \/ \E c \in C : ProcessPricing(c)
    \/ \E c \in C : ProcessTimeline(c)
    \/ \E c \in C : ProcessSignature(c)
    \/ \E c \in C : AssignBlocks(c)
    \/ \E c \in C : RenderDocument(c)
    \/ \E c \in C : Return(c)

(***************************************************************************)
(* The documents the callers render.                                       *)
(***************************************************************************)
Block(name, content) == Fence \o <<name>> \o NL \o content \o NL \o Fence

\* the documents made of 1..MaxChunks chunks of C, one below the other
ChunkDocs(C) ==
    UNION {{Join(q, NL) : q \in [1..n -> C]} : n \in 1..MaxChunks}

SigContents ==
    { <<"a", ":", " ", "<", "b", ">">>,
      <<"<", "b", ">", "&">>,
      <<"a", "\"", ":", "'", "b", "\n", "-", "-", "-", "\n", "k", ":", "x">>,
      <<"k", ":", "a", "\n", "\n", "-", "-", "-", "\n", "-", "-", "-", "\n", ">">>,
      <<"a", ">", ":", " ", "x", ":", "&">> }

\* - Week 1-2: a / - Week 3-5: b
TimelineExample ==
    <<"-", " ", "Week", " ", "1", "-", "2", ":", " ", "a", "\n",
      "-", " ", "Week", " ", "3", "-", "5", ":", " ", "b">>

\* - 1-160: a / - 50-160: b
TimelineLong ==
    <<"-", " ", "1", "-", "1", "6", "0", ":", " ", "a", "\n",
      "-", " ", "5", "0", "-", "1", "6", "0", ":", " ", "b">>

TimelineContents ==
    { TimelineExample, TimelineLong,
      <<"-", " ", "week", " ", "1", "-", "2", ":", " ", "<", "b", ">">>,
      <<"-", " ", "1", "-", "2", ":", " ", "a", "&", "b", "\n",
        "-", " ", "3", ":", " ", "\"", "x", "'">>,
      <<"*", " ", "5", "-", "1", ":", " ", "a", ">">>,
      <<"-", " ", "a">>,
      <<"-", " ", "a", " ", "3", ":", " ", "x">>,
      <<"-", " ", LongDigits, ":", " ", "x">> }

\* | a | $200 | / | b | $300 | / Discount: 10% / Tax: 8%
PricingExample ==
    <<"|", "a", "|", "$", "2", "0", "0", "|", "\n",
      "|", "b", "|", "$", "3", "0", "0", "|", "\n",
      "Discount", ":", " ", "1", "0", "%", "\n",
      "Tax", ":", " ", "8", "%">>

PricingContents ==
    { PricingExample,
      <<"|", "x", "|", "Total", "|", "\n", "|", "-", "|", "-", ":", "|", "\n",
        "|", "a", "|", "$", "1", "0", "|">>,
      <<"|", "b", "|", "$", "2", "0", "|", "\n", "tax", ":", "5", "%">>,
      <<"|", "Total", "|", "5", "|", "\n", "|", "a", "|", "x", "|", "\n",
        "|", "b", "|", "1", ".", "5", "0", "|">>,
      <<"Discount", ":", " ", "0", "%", "\n", "Tax", " ", ":", "8", "%">>,
      <<"discount", ":", " ", "-", "5", "\n", "|", "a", "|", "4", "0", "|">>,
      <<"a", " ", "Tax", ":", "8", "\n", "Discount", " ", "5", "%">> }

\* a pricing block with no content line
EmptyPricing == Fence \o <<"pricing", "\n">> \o Fence

\* directives that are not well formed, among well-formed blocks
BlockChunks ==
    { Fence \o <<"pricing", "\n", "|", "a", "|", "1", "|">>,
      Block("timeline", <<"-", " ", "1", ":", " ", "a">>),
      <<"x", " ">> \o Block("pricing", <<"|", "a", "|", "2", "|">>),
      Block("signature", <<"a", ":", " ", "b">>) \o <<"x">>,
      Fence \o <<"pricing", " ", "\n", "\n", "|", "a", "|", "3", "|", "\n">> \o Fence,
      EmptyPricing,
      <<"a">> }

VarChunks ==
    { Block("variables", <<"k", ":", " ", "Inline">>),
      Block("variables", <<"x", ":", "b", "\n", "k", " ", ":", " ", "a", "\n", "b">>),
      <<"{", "{", "k", "}", "}", " ", "a", " ", "{", "{", " ", "x", " ", "}", "}">>,
      <<"{", "{", "{", "k", "}", "}", "}", " ", "{", "{", "b", "}", "}">>,
      <<"{", "{", "k", " ", "x", "}", "}", "{", " ", "{", "k", "}", "}",
        "{", "{", "\n", "k", "\n", "}", "}">>,
      <<"{", "{", "a", "}", "}", "-", "{", "{", "b", "}", "}">> }

ExplicitK == Put(EmptyDict, <<"k">>, <<"Explicit">>)

\* a holds a placeholder of b, and b is defined
NestedAB == Put(Put(EmptyDict, <<"a">>, <<"{", "{", "b", "}", "}">>), <<"b">>, <<"z">>)

VarChoices ==
    { EmptyDict, ExplicitK, Put(ExplicitK, <<"x">>, <<"a", " ", "b">>), NestedAB }

SigDocs == ChunkDocs({Block("signature", x) : x \in SigContents})
TimelineDocs == ChunkDocs({Block("timeline", x) : x \in TimelineContents})
PricingDocs ==
    ChunkDocs({Block("pricing", x) : x \in PricingContents} \cup {EmptyPricing, <<"a">>})
BlockDocs == ChunkDocs(BlockChunks)

\* pricing tables: rows of totals, rows with empty and unparseable cells,
\* a row that begins like a modifier line, headers with and without digits
RowContents ==
    { <<"|", " ", "Subtotal", " ", "|", " ", "$", "5", " ", "|", "\n",
        "|", "a", "|", "$", "1", "0", "|">>,
      <<"|", "TOTAL", "|", "5", "|", "\n", "|", "b", "|", "2", "|", "\n",
        "|", "a", " ", "total", "|", "3", "|">>,
      <<"a", "|", "x", "\n", "-", "-", "-", "|", "-", "-", "-", "\n",
        "tax", ":", " ", "a", "|", "5", "\n", "b", "|", "7">>,
      <<"|", "a", "|", "x", " ", "2", "|", "\n", "|", "-", "-", "|", "-", ":", "|", "\n",
        "|", "a", "|", "$", "1", "0", "|">>,
      <<"|", "x", "|", "Total", "|", "\n", "|", "-", "|", "-", "|", "\n",
        "|", " ", "|", "a", "|", " ", "|", "4", "|", "\n", "|", "9", "|", "\n",
        "|", "b", "|", "x", "|">>,
      <<"|", "a", "|", "1", ".", "2", ".", "3", "|", "\n", "|", "b", "|", "-", "|", "\n",
        "|", "k", "|", "1", "-", "2", "|", "\n", "|", "x", "|", "$", "3", "|">> }

RowDocs == ChunkDocs({Block("pricing", x) : x \in RowContents})
VarDocs == ChunkDocs(VarChunks)

\* the documents of the concurrent callers
SharedDocs ==
    { Block("variables", <<"k", ":", " ", "Inline">>)
          \o <<"\n", "{", "{", "k", "}", "}", " ", "{", "{", "x", "}", "}">>,
      Block("variables", <<"x", ":", " ", "b">>)
          \o <<"\n", "{", "{", "x", "}", "}", "<", "b", ">", "&">>,
      <<"{", "{", "k", "}", "}", "\n">> \o Block("signature", <<"a", ":", " ", "<">>) }

SharedChoices == { EmptyDict, ExplicitK }

NoVariables == {EmptyDict}

One == {"t1"}

SpecSig == Init /\ [][NextOver(One, SigDocs, NoVariables)]_vars
SpecTimeline == Init /\ [][NextOver(One, TimelineDocs, NoVariables)]_vars
SpecPricing == Init /\ [][NextOver(One, PricingDocs, NoVariables)]_vars
SpecBlocks == Init /\ [][NextOver(One, BlockDocs, NoVariables)]_vars
SpecVars == Init /\ [][NextOver(One, VarDocs, VarChoices)]_vars
SpecRows == Init /\ [][NextOver(One, RowDocs, NoVariables)]_vars

\* documents of variables blocks: a key in two blocks, a key twice in one
\* block, a value with a second colon, a line without a colon
ExtractChunks ==
    { Block("variables", <<"k", ":", " ", "Inline">>),
      Block("variables", <<"x", ":", "b", "\n", "k", " ", ":", " ", "a", "\n", "b">>),
      Block("variables", <<"k", ":", "a", ":", "b", "\n", " ", "k", ":", " ", "x">>),
      <<"a", " ", "{", "{", "k", "}", "}">> }

ExtractDocs == ChunkDocs(ExtractChunks)

SpecExtract == Init /\ [][NextOver(One, ExtractDocs, NoVariables)]_vars

Next == NextOver(Calls, SharedDocs, SharedChoices)

Spec == Init /\ [][Next]_vars

(***************************************************************************)
(* The plugin endpoints, each request handled in one step.                 *)
(***************************************************************************)
\* the history keeps the requests of the last two windows
Recent(h, now) ==
    SelectSeq(h, LAMBDA e : ~OlderThan(now, e.at, 2 * _RATE_WINDOW_SECONDS))

\* the history with one more request: its instant, and whether
\* _enforce_rate_limit lets it pass
Record(h, ip, events, now) ==
    [h EXCEPT ![ip] = Append(Recent(@, now),
                             [at |-> now,
                              ok |-> ~_is_rate_limited(events, now).result])]

\* POST /plugin/v1/publish: the guard, the parsing of the JSON object,
\* create_published_document with a fresh random token
publish_document(r) ==
    LET g == _plugin_guard(rate_events[r.ip], clock, TRUE, captcha_token, r.token)
        payload == _parse_publish_request(r.data)
    IN  /\ request' = r
        /\ rate_events' = [rate_events EXCEPT ![r.ip] = g.events]
        /\ guarded' = Record(guarded, r.ip, rate_events[r.ip], clock)
        /\ IF g.status # 0
           THEN /\ response' = Answer("publish", g.status, g.error, <<>>)
                /\ UNCHANGED published_docs
           ELSE \E tok \in TokenIds :
                    LET c == create_published_document(
                                 published_docs, payload, <<tok>>, clock)
                    IN  /\ published_docs' = c.db
                        /\ response' = Answer("publish", c.status, c.error,
                                           IF c.status = 201 THEN <<tok>> ELSE <<>>)
        /\ UNCHANGED <<clock, captcha_token, guard_vars, render_vars>>

\* GET /p/<publish_id>
published_doc(raw) ==
    LET v == get_public_published_document(published_docs, _normalize_doc_id(raw), clock)
    IN  /\ request' = IdRequest("view", raw)
        /\ published_docs' = v.db
        /\ response' = Answer("view", v.status, v.error, _normalize_doc_id(raw))
        /\ UNCHANGED <<rate_events, clock, captcha_token, guarded, guard_vars,
                     render_vars>>

\* DELETE /plugin/v1/p/<publish_id>
plugin_delete_published(raw) ==
    LET d == delete_published_document(published_docs, _normalize_doc_id(raw))
    IN  /\ request' = IdRequest("delete", raw)
        /\ published_docs' = d.db
        /\ response' = Answer("delete", d.status, d.error, _normalize_doc_id(raw))
        /\ UNCHANGED <<rate_events, clock, captcha_token, guarded, guard_vars,
                     render_vars>>

\* POST /plugin/v1/cleanup
plugin_cleanup ==
    LET r == cleanup_expired_published_documents(published_docs, clock)
    IN  /\ request' = IdRequest("cleanup", <<>>)
        /\ published_docs' = r.db
        /\ response' = [NoResponse EXCEPT !.op = "cleanup", !.status = 200,
                                          !.cleaned = r.cleaned,
                                          !.scanned = r.scanned,
                                          !.timestamp = r.timestamp]
        /\ UNCHANGED <<rate_events, clock, captcha_token, guarded, guard_vars,
                     render_vars>>

\* GET /plugin/v1/p/<publish_id>: the metadata of the row, without html
plugin_get_published(raw) ==
    LET publish_id == _normalize_doc_id(raw)
        m == get_published_metadata(published_docs, publish_id)
    IN  /\ request' = IdRequest("metadata", raw)
        /\ response' = [Answer("metadata", m.status, m.error, publish_id)
                            EXCEPT !.document =
                                IF m.status = 200
                                THEN <<[f \in DOMAIN published_docs[publish_id]
                                           \ {"html"} |->
                                           published_docs[publish_id][f]]>>
                                ELSE <<>>]
        /\ UNCHANGED <<published_docs, rate_events, clock, captcha_token, guarded,
                     guard_vars, render_vars>>

\* POST /plugin/v1/p/<publish_id>/email: the guard without captcha, the
\* body, the row, the delivery
plugin_email_published(r, delivery) ==
    LET g == _plugin_guard(rate_events[r.ip], clock, FALSE, captcha_token, r.token)
        publish_id == _normalize_doc_id(r.raw)
        row == get_published_for_email(published_docs, publish_id, clock)
        sent == send_published_email(
                    _normalized_text(r.to_email, <<>>, <<>>), delivery)
    IN  /\ request' = r
        /\ rate_events' = [rate_events EXCEPT ![r.ip] = g.events]
        /\ guarded' = Record(guarded, r.ip, rate_events[r.ip], clock)
        /\ response' =
               IF g.status # 0 THEN Answer("email", g.status, g.error, <<>>)
               ELSE IF ~r.json
               THEN Answer("email", 400, "JSON object body is required", publish_id)
               ELSE IF row.status # 200
               THEN Answer("email", row.status, row.error, publish_id)
               ELSE Answer("email", sent.status, sent.error, publish_id)
        /\ UNCHANGED <<published_docs, clock, captcha_token, guard_vars, render_vars>>

(***************************************************************************)
(* The email endpoint handled by worker threads side by side.  Between two *)
(* operations on the shared queue of the client (its truth value, its      *)
(* first element, popleft, append, its length) another thread may run.     *)
(***************************************************************************)
\* the client and the request of the threads
RaceRequest == EmailRequest("ip1", <<"tokA">>, TRUE, <<"a", "@", "b", ".", "c">>)

\* the move of thread w from one place to another, the rest unchanged
GuardMove(w, from, to) ==
    /\ guard_pc[w] = from
    /\ guard_pc' = [guard_pc EXCEPT ![w] = to]

\* now = _utc_now().timestamp(); events = _rate_events[client_ip]
BeginGuard(w) ==
    /\ GuardMove(w, "idle", "test")
    /\ guard_now' = [guard_now EXCEPT ![w] = clock]
    /\ UNCHANGED <<published_docs, rate_events, clock, captcha_token, request,
                 response, guarded, render_vars>>

\* while events ...
TestQueue(w) ==
    /\ GuardMove(w, "test",
                 IF Len(rate_events[RaceRequest.ip]) > 0 THEN "head" ELSE "append")
    /\ UNCHANGED <<published_docs, rate_events, clock, captcha_token, request,
                 response, guarded, guard_now, render_vars>>

\* ... and now - events[0] > _RATE_WINDOW_SECONDS: events[0] of an empty
\* deque raises IndexError
TestHead(w) ==
    /\ GuardMove(w, "head",
                 IF Len(rate_events[RaceRequest.ip]) = 0 THEN "raised"
                 ELSE IF OlderThan(guard_now[w], Head(rate_events[RaceRequest.ip]),
                                   _RATE_WINDOW_SECONDS)
                 THEN "pop" ELSE "append")
    /\ UNCHANGED <<published_docs, rate_events, clock, captcha_token, request,
                 response, guarded, guard_now, render_vars>>

\* events.popleft(): IndexError on an empty deque
PopLeft(w) ==
    /\ IF Len(rate_events[RaceRequest.ip]) = 0
       THEN GuardMove(w, "pop", "raised") /\ UNCHANGED rate_events
       ELSE /\ GuardMove(w, "pop", "test")
            /\ rate_events' = [rate_events EXCEPT ![RaceRequest.ip] = Tail(@)]
    /\ UNCHANGED <<published_docs, clock, captcha_token, request, response,
                 guarded, guard_now, render_vars>>

\* events.append(now)
AppendEvent(w) ==
    /\ GuardMove(w, "append", "len")
    /\ rate_events' = [rate_events EXCEPT ![RaceRequest.ip] = Append(@, guard_now[w])]
    /\ UNCHANGED <<published_docs, clock, captcha_token, request, response,
                 guarded, guard_now, render_vars>>

\* return len(events) > _RATE_LIMIT_PER_WINDOW, and the rest of the handler
FinishGuard(w, delivery) ==
    LET limited == Len(rate_events[RaceRequest.ip]) > _RATE_LIMIT_PER_WINDOW
        publish_id == _normalize_doc_id(RaceRequest.raw)
        row == get_published_for_email(published_docs, publish_id, clock)
        sent == send_published_email(
                    _normalized_text(RaceRequest.to_email, <<>>, <<>>), delivery)
    IN  /\ GuardMove(w, "len", "idle")
        /\ request' = RaceRequest
        /\ guarded' = [guarded EXCEPT ![RaceRequest.ip] =
                           Append(Recent(@, guard_now[w]),
                                  [at |-> guard_now[w], ok |-> ~limited])]
        /\ response' =
               IF limited THEN Answer("email", 429, "Too many requests", <<>>)
               ELSE IF row.status # 200
               THEN Answer("email", row.status, row.error, publish_id)
               ELSE Answer("email", sent.status, sent.error, publish_id)
        /\ UNCHANGED <<published_docs, rate_events, clock, captcha_token,
                     guard_now, render_vars>>

\* the IndexError leaves the handler: the request is answered 500
GuardRaised(w) ==
    /\ GuardMove(w, "raised", "idle")
    /\ request' = RaceRequest
    /\ guarded' = [guarded EXCEPT ![RaceRequest.ip] =
                       Append(Recent(@, guard_now[w]),
                              [at |-> guard_now[w], ok |-> FALSE])]
    /\ response' = Answer("email", 500, "IndexError", <<>>)
    /\ UNCHANGED <<published_docs, rate_events, clock, captcha_token, guard_now,
                 render_vars>>

\* time passes: utc_now() moves on to the instant t
Tick(t) ==
    /\ TimeLess(clock, t)
    /\ clock' = t
    /\ UNCHANGED <<published_docs, rate_events, captcha_token, request, response,
                 guarded, guard_vars, render_vars>>

\* the views of the document raw names are below n
ViewsBelow(raw, n) ==
    _normalize_doc_id(raw) \in DOMAIN published_docs
    => published_docs[_normalize_doc_id(raw)].views < n

\* the requests R to publish, the ids I of the other requests, the
\* instants T the clock moves to
PluginNext(R, I, T) ==
    \/ \E r \in R :
           /\ Len(PruneEvents(rate_events[r.ip], clock)) < MaxQueued
           /\ publish_document(r)
    \/ \E raw \in I : ViewsBelow(raw, MaxViews) /\ published_doc(raw)
    \/ \E raw \in I : plugin_delete_published(raw)
    \/ plugin_cleanup
    \/ \E t \in T : Tick(t)

\* the html of the publish requests
\* <p>x</p>
HtmlPlain ==
    <<"<", "p", ">", "x", "<", "/", "p", ">">>

\*  <p>y</p>\n
HtmlPadded ==
    <<" ", "<", "p", ">", "y", "<", "/", "p", ">", "\n">>

\* 
HtmlEmpty ==
    <<>>

\* <script>x</script>
HtmlScriptOnly ==
    <<"<", "s", "c", "r", "i", "p", "t", ">", "x", "<", "/", "s", "c", "r",
      "i", "p", "t", ">">>

\* <b onclick='x'>X</b><a href="javascript:x">G</a><script>x</script>
HtmlTestPage ==
    <<"<", "b", " ", "o", "n", "c", "l", "i", "c", "k", "=", "'", "x", "'",
      ">", "X", "<", "/", "b", ">", "<", "a", " ", "h", "r", "e", "f", "=",
      "\"", "j", "a", "v", "a", "s", "c", "r", "i", "p", "t", ":", "x",
      "\"", ">", "G", "<", "/", "a", ">", "<", "s", "c", "r", "i", "p",
      "t", ">", "x", "<", "/", "s", "c", "r", "i", "p", "t", ">">>

\* <scr<script></script>ipt>x</script>
HtmlNestedScript ==
    <<"<", "s", "c", "r", "<", "s", "c", "r", "i", "p", "t", ">", "<", "/",
      "s", "c", "r", "i", "p", "t", ">", "i", "p", "t", ">", "x", "<", "/",
      "s", "c", "r", "i", "p", "t", ">">>

\* <p>a</p><script>x
HtmlUnclosedScript ==
    <<"<", "p", ">", "a", "<", "/", "p", ">", "<", "s", "c", "r", "i", "p",
      "t", ">", "x">>

\* <img/onerror=x>
HtmlSlashHandler ==
    <<"<", "i", "m", "g", "/", "o", "n", "e", "r", "r", "o", "r", "=", "x",
      ">">>

\* <a href="javajavascript:script:x">G</a>
HtmlNestedProtocol ==
    <<"<", "a", " ", "h", "r", "e", "f", "=", "\"", "j", "a", "v", "a",
      "j", "a", "v", "a", "s", "c", "r", "i", "p", "t", ":", "s", "c", "r",
      "i", "p", "t", ":", "x", "\"", ">", "G", "<", "/", "a", ">">>

\* <img onjavascript:load=x>
HtmlHandlerByProtocol ==
    <<"<", "i", "m", "g", " ", "o", "n", "j", "a", "v", "a", "s", "c", "r",
      "i", "p", "t", ":", "l", "o", "a", "d", "=", "x", ">">>

\* <SCRIPT >x</ script >y
HtmlUpperScript ==
    <<"<", "S", "C", "R", "I", "P", "T", " ", ">", "x", "<", "/", " ", "s",
      "c", "r", "i", "p", "t", " ", ">", "y">>

\* <sc<style></style>ript>x</script>
HtmlStyleInScript ==
    <<"<", "s", "c", "<", "s", "t", "y", "l", "e", ">", "<", "/", "s", "t",
      "y", "l", "e", ">", "r", "i", "p", "t", ">", "x", "<", "/", "s", "c",
      "r", "i", "p", "t", ">">>

\* <meta a><b  ONLOAD = "x y" srcdoc=z>t</b><link>
HtmlAttributes ==
    <<"<", "m", "e", "t", "a", " ", "a", ">", "<", "b", " ", " ", "O", "N",
      "L", "O", "A", "D", " ", "=", " ", "\"", "x", " ", "y", "\"", " ",
      "s", "r", "c", "d", "o", "c", "=", "z", ">", "t", "<", "/", "b", ">",
      "<", "l", "i", "n", "k", ">">>

\* JSON objects of publish requests
ValidData ==
    [title |-> <<"SOW">>, html |-> HtmlPlain, expires_in_days |-> <<1>>,
     revision |-> <<4>>, signed |-> "True", signed_only |-> "True",
     template |-> <<"classic">>, page_size |-> <<"Legal">>,
     jurisdiction |-> <<"US_NY">>]

\* {"html": " <p>y</p>\n"}: every other key is missing
DefaultsData ==
    [title |-> <<>>, html |-> HtmlPadded, expires_in_days |-> <<>>,
     revision |-> <<>>, signed |-> "None", signed_only |-> "None",
     template |-> <<>>, page_size |-> <<>>, jurisdiction |-> <<>>]

PublishData ==
    { ValidData, DefaultsData,
      [ValidData EXCEPT !.html = HtmlEmpty],
      [ValidData EXCEPT !.html = HtmlScriptOnly],
      [ValidData EXCEPT !.revision = <<0>>],
      [ValidData EXCEPT !.jurisdiction = <<"US_TX">>],
      [ValidData EXCEPT !.template = <<"fancy">>],
      [ValidData EXCEPT !.page_size = <<"A3">>],
      [ValidData EXCEPT !.template = <<"fancy">>, !.html = HtmlEmpty],
      [DefaultsData EXCEPT !.template = <<" ", "minimal", " ">>,
                           !.jurisdiction = <<" ">>,
                           !.expires_in_days = <<1000>>,
                           !.signed_only = "yes", !.signed = "maybe"] }

Requests(ips, tokens, data) ==
    {PublishRequest(i, t, d) : i \in ips, t \in tokens, d \in data}

\* ids of view and delete requests: a token, an id no document has, and
\* the token with a character the route drops
RequestIds == {<<"tokA">>, <<"x">>, <<"tokA", "!">>}

\* instants: half a second, one day, one day and half a second after the
\* start
HalfSecond == [day |-> 0, sec |-> 0, us |-> 500000]
OneDay == [day |-> 1, sec |-> 0, us |-> 0]
OneDayAndHalf == [day |-> 1, sec |-> 0, us |-> 500000]

InitPlugin ==
    /\ RenderIdle
    /\ PluginIdle
    /\ captcha_token = ""

PublishRequests == Requests({"ip1"}, {""}, PublishData)

\* the publish requests, with views and deletes of an id no document has
SpecPublish ==
    InitPlugin /\ [][PluginNext(PublishRequests, {<<"x">>}, {OneDay})]_vars

ExpiryRequests == Requests({"ip1"}, {""}, {ValidData})

SpecExpiry ==
    InitPlugin /\ [][PluginNext(ExpiryRequests, RequestIds,
                                {HalfSecond, OneDay, OneDayAndHalf})]_vars

\* publish requests whose html holds markup the sanitizer is there for
HtmlSamples ==
    {HtmlPlain, HtmlTestPage, HtmlNestedScript, HtmlUnclosedScript,
     HtmlSlashHandler, HtmlNestedProtocol, HtmlHandlerByProtocol,
     HtmlUpperScript, HtmlStyleInScript, HtmlAttributes}

SanitizeRequests ==
    Requests({"ip1"}, {""}, {[ValidData EXCEPT !.html = h] : h \in HtmlSamples})

NextSanitize ==
    \E r \in SanitizeRequests :
        /\ Len(PruneEvents(rate_events[r.ip], clock)) < MaxQueued
        /\ publish_document(r)

SpecSanitize == InitPlugin /\ [][NextSanitize]_vars

\* instants around the rate window: one minute, one minute and half a
\* second after the start
Minute == [day |-> 0, sec |-> _RATE_WINDOW_SECONDS, us |-> 0]
MinuteAndHalf == [Minute EXCEPT !.us = 500000]

RateInstants == {Minute, MinuteAndHalf}

\* requests to the two guarded endpoints: a publish request without html,
\* an email request for an id no document has
GuardedPublish(ip) == PublishRequest(ip, "", [ValidData EXCEPT !.html = HtmlEmpty])
GuardedEmail(ip) == EmailRequest(ip, <<"tokA">>, TRUE, <<"a", "@", "b", ".", "c">>)

\* the queue of the first client may fill up to MaxQueued events beyond
\* the limit; the second client sends up to MaxQueued requests in a window,
\* while the first is over the limit
QueueRoom(ip) ==
    IF ip = "ip1"
    THEN Len(PruneEvents(rate_events[ip], clock)) < _RATE_LIMIT_PER_WINDOW + MaxQueued
    ELSE /\ Len(PruneEvents(rate_events[ip], clock)) < MaxQueued
         /\ Len(rate_events["ip1"]) > _RATE_LIMIT_PER_WINDOW

NextRate ==
    \/ \E ip \in ClientIps : QueueRoom(ip) /\ publish_document(GuardedPublish(ip))
    \/ \E ip \in ClientIps :
           QueueRoom(ip) /\ plugin_email_published(GuardedEmail(ip), 200)
    \/ \E t \in RateInstants : Tick(t)

SpecRate == InitPlugin /\ [][NextRate]_vars

\* the outcomes of the SMTP delivery: sent, send error, configuration error
Deliveries == {200, 502, 503}

\* every operation on the published documents, on the document tokA
NextDelete ==
    \/ \E r \in ExpiryRequests :
           /\ Len(PruneEvents(rate_events[r.ip], clock)) < MaxQueued
           /\ publish_document(r)
    \/ ViewsBelow(<<"tokA">>, MaxViews) /\ published_doc(<<"tokA">>)
    \/ \E d \in Deliveries :
           /\ Len(PruneEvents(rate_events["ip1"], clock)) < MaxQueued
           /\ plugin_email_published(GuardedEmail("ip1") , d)
    \/ plugin_delete_published(<<"tokA">>)
    \/ plugin_cleanup
    \/ plugin_get_published(<<"tokA">>)
    \/ \E t \in {OneDay, OneDayAndHalf} : Tick(t)

SpecDelete == InitPlugin /\ [][NextDelete]_vars

\* two threads, each taking a request of the client when the queue holds
\* fewer than MaxQueued events
NextRace ==
    \/ \E w \in Workers :
           /\ Len(rate_events[RaceRequest.ip]) < MaxQueued
           /\ BeginGuard(w)
    \/ \E w \in Workers : TestQueue(w)
    \/ \E w \in Workers : TestHead(w)
    \/ \E w \in Workers : PopLeft(w)
    \/ \E w \in Workers : AppendEvent(w)
    \/ \E w \in Workers : FinishGuard(w, 200)
    \/ \E w \in Workers : GuardRaised(w)
    \/ \E t \in RateInstants : Tick(t)

SpecRace == InitPlugin /\ [][NextRace]_vars

(***************************************************************************)
(* Properties.                                                             *)
(***************************************************************************)
\* the contents of the blocks of one type the pattern finds in s
BlocksOf(s, name) ==
    LET ms == FindBlocks(s, name, 1)
    IN  {BlockContent(s, ms[i]) : i \in 1..Len(ms)}

\* s without its blocks of one type
Outside(s, name) ==
    LET ms == FindBlocks(s, name, 1) IN ReplaceBlocks(s, ms, Removed(ms))

IsSpecial(ch) == ch \in Special

HasSpecial(s) == \E i \in 1..Len(s) : IsSpecial(s[i])

\* the number of raw special characters of s
SpecialCount(s) == Len(SelectSeq(s, IsSpecial))

\* the labels, values and plain lines of the author in a signature content
SigTexts(content) ==
    LET blocks == _signature_blocks(content)
        lines == UNION {{blocks[i][j] : j \in 1..Len(blocks[i])} : i \in 1..Len(blocks)}
    IN  UNION {IF Contains(l, ":")
               THEN {Strip(SplitOnce(l, <<":">>)[1]), Strip(SplitOnce(l, <<":">>)[2])}
               ELSE {l} : l \in lines}

\* C1: once the signature pass has run, every label, value and plain line
\* of every signature block of the text is in the result in its
\* entity-escaped form, and the result holds no raw special character
\* that the signature blocks brought in: the raw characters left are those
\* of the text outside the blocks.
C1_SignatureEscaped ==
    \A c \in Calls :
        (pc[c] = "assign" /\ BlocksOf(text[c], "pricing") = {}
                          /\ BlocksOf(text[c], "timeline") = {})
        => /\ \A content \in BlocksOf(text[c], "signature") :
                  \A t \in SigTexts(content) : HasSub(block_text[c], escape(t))
           /\ SpecialCount(block_text[c]) = SpecialCount(Outside(text[c], "signature"))

\* a signature value <b> has been rendered, as &lt;b&gt;
C1_Witness ==
    \E c \in Calls :
        /\ pc[c] = "assign"
        /\ HasSub(text[c], <<":", " ", "<", "b", ">">>)
        /\ HasSub(block_text[c], <<SigFieldMid, "&lt;", "b", "&gt;", SigFieldClose>>)

\* the labels of the parsed entries of a timeline content
TimelineLabels(content) ==
    LET rows == _parse_timeline_rows(content).rows
    IN  {rows[i].label : i \in 1..Len(rows)}

\* C2: for every timeline block with an entry label that holds a special
\* character, the rendered block (bullet list and Gantt view) contains the
\* entity-escaped label and does not contain the raw label.
C2_TimelineLabelEscaped ==
    \A c \in Calls :
        pc[c] = "signature"
        => \A content \in BlocksOf(text[c], "timeline") :
               \A label \in TimelineLabels(content) :
                   HasSpecial(label)
                   => /\ HasSub(_render_timeline_block(content), escape(label))
                      /\ HasSub(block_text[c], escape(label))
                      /\ ~HasSub(_render_timeline_block(content), label)
                      /\ ~HasSub(block_text[c], label)

\* the text render_markdown substitutes in: the argument without its
\* variables blocks
AfterExtraction(c) == _extract_variables_block(arg_text[c]).text

\* s with the placeholders whose name d maps replaced by the mapped value,
\* position by position: the first character of such a placeholder becomes
\* the value, its other characters vanish, all other characters stay
Replaced(s, d) ==
    LET mapped(p) == PlaceholderAt(s, p).end # 0 /\ PlaceholderAt(s, p).name \in DOMAIN d
        inside(p) == \E q \in 1..(p - 1) : mapped(q) /\ PlaceholderAt(s, q).end >= p
    IN  Cat([p \in 1..Len(s) |->
                IF mapped(p) THEN d[PlaceholderAt(s, p).name]
                ELSE IF inside(p) THEN <<>>
                ELSE <<s[p]>>])

\* the keys defined both inline and explicitly
Collisions(c) == (DOMAIN inline_vars[c]) \cap (DOMAIN variables[c])

\* a placeholder of key k is in s
HasPlaceholder(s, k) ==
    \E p \in 1..Len(s) : PlaceholderAt(s, p).end # 0 /\ PlaceholderAt(s, p).name = k

\* the mapping in which the explicit value stands for every explicit key
ExplicitFirst(c) ==
    [k \in (DOMAIN inline_vars[c]) \cup (DOMAIN variables[c]) |->
        IF k \in DOMAIN variables[c] THEN variables[c][k] ELSE inline_vars[c][k]]

\* an inline value that the document and the explicit values do not hold
\* anywhere else
OnlyInline(c, k) ==
    /\ Len(inline_vars[c][k]) > 0
    /\ ~HasSub(AfterExtraction(c), inline_vars[c][k])
    /\ \A j \in DOMAIN merged_vars[c] :
           j \in DOMAIN variables[c] => ~HasSub(variables[c][j], inline_vars[c][k])

\* C3: for every key defined both in a variables block and in the explicit
\* argument, the merged mapping holds the explicit value, every placeholder
\* of the key is replaced by the explicit value (none is left), and the
\* inline value is not in the output.
C3_ExplicitWins ==
    \A c \in Calls :
        \A k \in Collisions(c) :
            /\ pc[c] \in {"substitute", "pricing", "done"}
               => merged_vars[c][k] = variables[c][k]
            /\ pc[c] = "pricing"
               => /\ text[c] = Replaced(AfterExtraction(c), ExplicitFirst(c))
                  /\ ~HasPlaceholder(text[c], k)
                  /\ OnlyInline(c, k) => ~HasSub(text[c], inline_vars[c][k])
            /\ (pc[c] = "done" /\ raised[c] = "none" /\ OnlyInline(c, k))
               => ~HasSub(html[c], inline_vars[c][k])

\* k is defined inline (Inline) and explicitly (Explicit), the document
\* has {{k}}, and the output has the explicit value
C3_Witness ==
    \E c \in Calls :
        /\ pc[c] = "done"
        /\ <<"k">> \in Collisions(c)
        /\ inline_vars[c][<<"k">>] = <<"Inline">>
        /\ HasSub(arg_text[c], <<"{", "{", "k", "}", "}">>)
        /\ HasSub(html[c], <<"Explicit">>)
        /\ ~HasSub(html[c], <<"Inline">>)

\* C4: the substituted text is the text with every placeholder whose name
\* is in the merged mapping replaced by the mapped value (whitespace in the
\* braces allowed), and every other character, the placeholders of unknown
\* names included, as it was.
C4_Substitution ==
    \A c \in Calls :
        pc[c] = "pricing"
        => /\ text[c] = Replaced(AfterExtraction(c), merged_vars[c])
           /\ \A p \in 1..Len(AfterExtraction(c)) :
                  LET m == PlaceholderAt(AfterExtraction(c), p)
                  IN  (m.end # 0 /\ m.name \notin DOMAIN merged_vars[c])
                      => HasSub(text[c], SubSeq(AfterExtraction(c), p, m.end))

\* {{ x }} with x mapped has been replaced, {{b}} with b unknown is kept
C4_Witness ==
    \E c \in Calls :
        /\ pc[c] = "pricing"
        /\ <<"x">> \in DOMAIN merged_vars[c]
        /\ <<"b">> \notin DOMAIN merged_vars[c]
        /\ HasSub(arg_text[c], <<"{", "{", " ", "x", " ", "}", "}">>)
        /\ ~HasSub(text[c], <<"{", "{", " ", "x", " ", "}", "}">>)
        /\ HasSub(arg_text[c], <<"{", "{", "b", "}", "}">>)
        /\ HasSub(text[c], <<"{", "{", "b", "}", "}">>)

\* where the replacement of the placeholder at p of s begins in the
\* substituted text
OutputStart(s, p, d) == Len(Replaced(SubSeq(s, 1, p - 1), d)) + 1

\* C17: substitution is a single pass.  The value inserted for a
\* placeholder stands in the output character for character, also when it
\* holds a placeholder of a defined name: with a = {{b}} and b defined,
\* {{a}} comes out as the literal text {{b}}.
C17_SinglePass ==
    \A c \in Calls :
        pc[c] = "pricing"
        => \A p \in 1..Len(AfterExtraction(c)) :
               LET m == PlaceholderAt(AfterExtraction(c), p)
                   o == OutputStart(AfterExtraction(c), p, merged_vars[c])
               IN  (m.end # 0 /\ m.name \in DOMAIN merged_vars[c])
                   => StartsAt(text[c], o, merged_vars[c][m.name])

\* a is {{b}}, b is z, and the document  {{a}}-{{b}}  came out as {{b}}-z
C17_Witness ==
    \E c \in Calls :
        /\ pc[c] = "pricing"
        /\ merged_vars[c] = NestedAB
        /\ AfterExtraction(c) = <<"{", "{", "a", "}", "}", "-", "{", "{", "b", "}", "}">>
        /\ text[c] = <<"{", "{", "b", "}", "}", "-", "z">>

\* the six orders in which the three directive types can be processed
Orders ==
    { o \in [1..3 -> {"pricing", "timeline", "signature"}] :
          \A i, j \in 1..3 : i # j => o[i] # o[j] }

\* one pass of the dispatcher's loop, for block_type
PassOf(s, block_type) == SubBlocks(s, FindBlocks(s, block_type, 1), block_type)

\* the dispatcher's loop run over the types in the order o
ProcessIn(s, o) == PassOf(PassOf(PassOf(s, o[1]), o[2]), o[3])

\* the text the timeline pass of the order o works on
BeforeTimeline(s, o) ==
    CASE o[1] = "timeline" -> s
      [] o[2] = "timeline" -> PassOf(s, o[1])
      [] OTHER -> PassOf(PassOf(s, o[1]), o[2])

\* C18: the result of the block dispatcher does not depend on the order
\* in which pricing, timeline and signature are processed: whenever the
\* dispatcher has returned, every order that raises nothing gives the text
\* it returned.
C18_OrderIndependent ==
    \A c \in Calls :
        pc[c] = "assign"
        => \A o \in Orders :
               ~SubTimelineRaises(BeforeTimeline(text[c], o))
               => ProcessIn(text[c], o) = block_text[c]

\* the entry has the form  [week|wk]? <start>-<end>: <label>  or
\* [week|wk]? <num>: <label>  from its first character on
FormMatch(entry) ==
    IF RangeMatchAt(entry, 1).ok THEN RangeMatchAt(entry, 1)
    ELSE PointMatchAt(entry, 1)

\* a bullet line whose remainder has the form of an entry
HasEntryForm(line) == IsBullet(line) /\ FormMatch(BulletEntry(line)).ok

FormEntry(line) == EntryOf(FormMatch(BulletEntry(line)))

\* the entries of the lines of a content that have the form, in order
FormEntries(content) ==
    LET ls == Split(content, NL)
        stripped == [i \in 1..Len(ls) |-> Strip(ls[i])]
    IN  [i \in 1..Len(SelectSeq(stripped, HasEntryForm)) |->
            FormEntry(SelectSeq(stripped, HasEntryForm)[i])]

\* C20: a timeline line produces a Gantt entry only if it is a bullet
\* whose remainder has the form [week|wk]? <start>-<end>: <label> or
\* [week|wk]? <num>: <label>; every other line produces none, and the
\* label is the text after the week specification: the rows of a block
\* are the entries of its lines of that form, and the Gantt view in the
\* output is the one of these entries.
C20_EntryForm ==
    \A c \in Calls :
        pc[c] = "signature"
        => \A content \in BlocksOf(text[c], "timeline") :
               /\ _parse_timeline_rows(content).rows = FormEntries(content)
               /\ HasSub(block_text[c], GanttHtml(FormEntries(content)))

\* the bar of the Gantt view for an entry, the smallest start min_start and
\* the span of the timeline
BarOf(row, min_start, span) ==
    <<GanttBarOpen, Percent2(row.start - min_start, span), GanttBarMid,
      Percent2(row.end - row.start + 1, span), GanttBarClose>>

\* the rendered row of an entry up to its track, then its bar
RowWithBar(row, min_start, span) ==
    <<GanttSpanOpen, ToString(row.start), "-W", ToString(row.end), GanttSpanClose>>
        \o BarOf(row, min_start, span)

\* C21: for a timeline with at least one entry, with min_start the least
\* start and span = max(1, greatest end - min_start + 1), the rendered
\* block shows for every entry a bar with offset (start - min_start) / span
\* * 100 and width (end - start + 1) / span * 100; entries W1-W2 and W3-W5
\* give offset 0 / width 40 and offset 40 / width 60.
C21_GanttBars ==
    \A c \in Calls :
        pc[c] = "signature"
        => \A content \in BlocksOf(SubPricing(text[c]), "timeline") :
               LET rows == _parse_timeline_rows(content).rows
                   starts == {rows[i].start : i \in 1..Len(rows)}
                   ends == {rows[i].end : i \in 1..Len(rows)}
               IN  Len(rows) >= 1
                   => /\ _timeline_span(rows).min_start \in starts
                      /\ \A x \in starts : _timeline_span(rows).min_start <= x
                      /\ \E e \in ends :
                             /\ \A y \in ends : y <= e
                             /\ _timeline_span(rows).span
                                    = IF e - Min(starts) + 1 >= 1
                                      THEN e - Min(starts) + 1 ELSE 1
                      /\ \A i \in 1..Len(rows) :
                             HasSub(block_text[c],
                                    RowWithBar(rows[i], Min(starts),
                                               IF Max(ends) - Min(starts) + 1 >= 1
                                               THEN Max(ends) - Min(starts) + 1
                                               ELSE 1))
                      /\ content = TimelineExample
                         => /\ HasSub(block_text[c],
                                      <<"1", "-W", "2", GanttSpanClose, GanttBarOpen,
                                        "0.00", GanttBarMid, "40.00", GanttBarClose>>)
                            /\ HasSub(block_text[c],
                                      <<"3", "-W", "5", GanttSpanClose, GanttBarOpen,
                                        "40.00", GanttBarMid, "60.00", GanttBarClose>>)

\* the example timeline has been rendered with its two bars
C21_Witness ==
    \E c \in Calls :
        /\ pc[c] = "signature"
        /\ TimelineExample \in BlocksOf(text[c], "timeline")
        /\ HasSub(block_text[c], <<GanttBarOpen, "0.00", GanttBarMid, "40.00", GanttBarClose>>)
        /\ HasSub(block_text[c], <<GanttBarOpen, "40.00", GanttBarMid, "60.00", GanttBarClose>>)

\* the index i of s lies in one of the matches ms
InMatch(ms, i) == \E j \in 1..Len(ms) : ms[j].start <= i /\ i <= ms[j].end

\* s without the symbols of the matches ms
WithoutMatches(s, ms) ==
    LET F[i \in 0..Len(s)] ==
            IF i = 0 THEN <<>>
            ELSE IF InMatch(ms, i) THEN F[i - 1]
            ELSE Append(F[i - 1], s[i])
    IN  F[Len(s)]

\* the trimmed lines of the matched blocks, in document order
VarLines(s, ms) ==
    Cat([j \in 1..Len(ms) |->
            LET ls == Split(Strip(BlockContent(s, ms[j])), NL)
            IN  [n \in 1..Len(ls) |-> Strip(ls[n])]])

HasColon(line) == Contains(line, ":")

FirstColon(line) == Min({i \in 1..Len(line) : line[i] = ":"})

KeyOf(line) == Strip(Slice(line, 1, FirstColon(line) - 1))

ValueOf(line) == Strip(Slice(line, FirstColon(line) + 1, Len(line)))

\* the mapping of the lines with a colon, the last line of a key giving
\* its value
LastWins(ls) ==
    [k \in {KeyOf(ls[i]) : i \in 1..Len(ls)} |->
        ValueOf(ls[Max({i \in 1..Len(ls) : KeyOf(ls[i]) = k})])]

\* C22: extraction removes every matched variables block, delimiters
\* included, and returns the mapping of all blocks in document order: a
\* line with a colon gives the trimmed key before its first colon and the
\* trimmed value behind it, a line without a colon gives nothing, and the
\* last occurrence of a key wins.
C22_Extraction ==
    \A c \in Calls :
        pc[c] = "merge"
        => LET ms == FindBlocks(arg_text[c], "variables", 1)
           IN  /\ text[c] = WithoutMatches(arg_text[c], ms)
               /\ Len(text[c]) + Len(Cat([j \in 1..Len(ms) |->
                       Slice(arg_text[c], ms[j].start, ms[j].end)]))
                      = Len(arg_text[c])
               /\ DOMAIN inline_vars[c]
                      = DOMAIN LastWins(SelectSeq(VarLines(arg_text[c], ms), HasColon))
               /\ \A k \in DOMAIN inline_vars[c] :
                      inline_vars[c][k]
                          = LastWins(SelectSeq(VarLines(arg_text[c], ms), HasColon))[k]

\* two blocks were extracted: k is set in both and has the value of the
\* second, the line without a colon gave no key, nothing but the newline
\* between the blocks is left
C22_Witness ==
    \E c \in Calls :
        /\ pc[c] = "merge"
        /\ Len(FindBlocks(arg_text[c], "variables", 1)) = 2
        /\ HasSub(arg_text[c], <<"k", ":", " ", "Inline", "\n">> \o Fence \o
                               <<"\n">> \o Fence \o <<"variables", "\n", "x", ":", "b">>)
        /\ DOMAIN inline_vars[c] = {<<"k">>, <<"x">>}
        /\ inline_vars[c][<<"k">>] = <<"a">>
        /\ inline_vars[c][<<"x">>] = <<"b">>
        /\ text[c] = NL

\* n dollars in the unit of the amounts
Dollars(n) == n * 100 * CentUnits

\* the four amounts follow from (subtotal in cents, discount_pct, tax_pct)
\* as the claim computes them, cleared of the divisions
PricingLaw(v, a) ==
    /\ a.subtotal = v.subtotal * CentUnits
    /\ a.discount_amount = v.subtotal * v.discount_pct * 100
    /\ a.discounted = a.subtotal - a.discount_amount
    /\ a.discounted = v.subtotal * (100 - v.discount_pct) * 100
    /\ a.tax_amount = v.subtotal * (100 - v.discount_pct) * v.tax_pct
    /\ a.grand_total = a.discounted + a.tax_amount
    /\ a.grand_total = v.subtotal * (100 - v.discount_pct) * (100 + v.tax_pct)

\* C5: the discount is taken on the raw subtotal, the tax on the discounted
\* amount, the total is their sum, and the panel written into the text
\* shows that total; rows 200 and 300 with 10% and 8% give 50, 450, 36, 486.
C5_PricingArithmetic ==
    \A c \in Calls :
        pc[c] = "timeline"
        => \A content \in BlocksOf(text[c], "pricing") :
               /\ PricingLaw(_summarize_pricing_values(content), PricingAmounts(content))
               /\ HasSub(block_text[c],
                         <<TotalOpen,
                           _format_money(_summarize_pricing_values(content).subtotal
                               * (100 - _summarize_pricing_values(content).discount_pct)
                               * (100 + _summarize_pricing_values(content).tax_pct)),
                           DivClose>>)
               /\ content = PricingExample
                  => /\ PricingAmounts(content).discount_amount = Dollars(50)
                     /\ PricingAmounts(content).discounted = Dollars(450)
                     /\ PricingAmounts(content).tax_amount = Dollars(36)
                     /\ PricingAmounts(content).grand_total = Dollars(486)

\* the example block has been rendered: -$50.00, $36.00 and $486.00
C5_Witness ==
    \E c \in Calls :
        /\ pc[c] = "timeline"
        /\ PricingExample \in BlocksOf(text[c], "pricing")
        /\ HasSub(block_text[c], <<DiscountOpen, "10", PctClose, "-$50.00", DivClose>>)
        /\ HasSub(block_text[c], <<TaxOpen, "8", PctClose, "$36.00", DivClose>>)
        /\ HasSub(block_text[c], <<TotalOpen, "$486.00", DivClose>>)

(***************************************************************************)
(* The block syntax read line by line: a block begins with a line that is  *)
(* ::: and the directive name (trailing whitespace allowed) and ends with  *)
(* the next line that is ::: alone; its content is the lines between.      *)
(***************************************************************************)
Directives == {"pricing", "timeline", "signature"}

LinesOf(s) == Split(s, NL)

IsOpeningLine(line, name) ==
    /\ Len(line) >= 4
    /\ SubSeq(line, 1, 4) = Fence \o <<name>>
    /\ \A i \in 5..Len(line) : IsSpace(line[i])

IsDirectiveLine(line) == \E name \in Directives : IsOpeningLine(line, name)

IsClosingLine(line) == line = Fence

\* the closing line of the opening line i: the first closing line below
\* it, unless another directive opens before; 0: it has none of its own
ClosingOf(ls, i) ==
    LET C == {j \in (i + 1)..Len(ls) : IsClosingLine(ls[j])}
    IN  IF C = {} THEN 0
        ELSE IF \E j \in (i + 1)..(Min(C) - 1) : IsDirectiveLine(ls[j]) THEN 0
        ELSE Min(C)

\* the lines i..j of ls as text
LinesText(ls, i, j) == Join([n \in 1..(j - i + 1) |-> ls[i + n - 1]], NL)

\* the opening lines of the terminated blocks of one type
BlockLines(ls, name) ==
    {i \in 1..Len(ls) : IsOpeningLine(ls[i], name) /\ ClosingOf(ls, i) # 0}

\* the number of elements of s equal to x
Count(s, x) == Cardinality({i \in 1..Len(s) : s[i] = x})

\* C6: a document of N pricing blocks renders N summary panels, and the
\* panel of each block is the summary of the lines of that block.
C6_PricingBlocksIndependent ==
    \A c \in Calls :
        pc[c] = "timeline"
        => LET ls == LinesOf(text[c])
           IN  /\ Count(block_text[c], SummaryOpen)
                      = Cardinality(BlockLines(ls, "pricing"))
               /\ \A i \in BlockLines(ls, "pricing") :
                      HasSub(block_text[c],
                             _build_pricing_summary(
                                 LinesText(ls, i + 1, ClosingOf(ls, i) - 1)))

\* the line at which the text of the unterminated directive of line i ends:
\* the line before the next directive line, or the last line
SegmentEnd(ls, i) ==
    LET D == {j \in (i + 1)..Len(ls) : IsDirectiveLine(ls[j])}
    IN  IF D = {} THEN Len(ls) ELSE Min(D) - 1

\* C7: an opening line with no closing line of its own is not matched:
\* when the dispatcher returns, its text is in the result as it was,
\* whatever follows it.
C7_UnterminatedPassesThrough ==
    \A c \in Calls :
        pc[c] = "assign"
        => LET ls == LinesOf(text[c])
           IN  \A i \in 1..Len(ls) :
                   (IsDirectiveLine(ls[i]) /\ ClosingOf(ls, i) = 0)
                   => HasSub(block_text[c], LinesText(ls, i, SegmentEnd(ls, i)))

\* the match m of the pattern in s lies on whole lines: it begins at the
\* start of a line, its content begins after the opening line, and its
\* closing ::: is a line of its own
OnWholeLines(s, m) ==
    /\ m.start = 1 \/ s[m.start - 1] = "\n"
    /\ m.cs = FindSub(s, NL, m.start) + 1
    /\ m.end = Len(s) \/ s[m.end + 1] = "\n"

\* the text the pass at pc[c] is about to search, and its block type
PassText(c) == IF pc[c] \in {"extract", "pricing"} THEN text[c] ELSE block_text[c]

PassName(c) == IF pc[c] = "extract" THEN "variables" ELSE pc[c]

\* C8: whatever a pass recognises as a block begins with an opening line,
\* ends with a line that is ::: alone, and has the lines between as its
\* content.
C8_BlocksOnWholeLines ==
    \A c \in Calls :
        pc[c] \in {"extract", "pricing", "timeline", "signature"}
        => LET ms == FindBlocks(PassText(c), PassName(c), 1)
           IN  \A i \in 1..Len(ms) : OnWholeLines(PassText(c), ms[i])

\* C9: no call of render_markdown ends with an exception, and the span of
\* the rows of every timeline block is at least 1.
C9_NeverRaises ==
    \A c \in Calls :
        /\ raised[c] = "none"
        /\ pc[c] = "timeline"
           => \A content \in BlocksOf(block_text[c], "timeline") :
                  LET r == _parse_timeline_rows(content)
                  IN  (~r.raises /\ Len(r.rows) > 0) => _timeline_span(r.rows).span >= 1

\* C10: under every interleaving, what a call holds is what the call alone
\* computes from its own arguments: the variables it extracted, the mapping
\* it merged, and its result.
C10_CallsIndependent ==
    \A c \in Calls :
        /\ pc[c] \in {"merge", "substitute", "pricing", "timeline", "signature",
                      "assign", "markdown"}
           => inline_vars[c] = _extract_variables_block(arg_text[c]).vars
        /\ pc[c] \in {"substitute", "pricing"}
           => merged_vars[c]
                  = MergeDicts(_extract_variables_block(arg_text[c]).vars, variables[c])
        /\ pc[c] = "done"
           => /\ html[c] = render_markdown(arg_text[c], variables[c]).html
              /\ raised[c] = render_markdown(arg_text[c], variables[c]).raised

\* two calls are under way at once, one has extracted k and the other x,
\* and the call without k has finished with {{k}} left in its result
C10_Witness ==
    /\ pc["t1"] \in {"substitute", "pricing", "timeline"}
    /\ <<"k">> \in DOMAIN inline_vars["t1"]
    /\ pc["t2"] = "done"
    /\ DOMAIN inline_vars["t2"] = {<<"x">>}
    /\ variables["t2"] = EmptyDict
    /\ html["t2"] = render_markdown(arg_text["t2"], EmptyDict).html
    /\ HasSub(html["t2"], <<"b">>)

\* a stripped line of content begins with the field word, optional
\* whitespace and a colon
HasModifierLine(content, field) ==
    \E l \in {Strip(Split(content, NL)[i]) : i \in 1..Len(Split(content, NL))} :
        /\ Len(l) >= 2
        /\ l[1] \in field
        /\ SkipSpace(l, 2) <= Len(l)
        /\ l[SkipSpace(l, 2)] = ":"

\* the content has a line with a | in it
HasRowLine(content) == Contains(content, "|")

\* 1 if b, else 0
Bit(b) == IF b THEN 1 ELSE 0

\* the panel has one Subtotal and one Total line, a Discount line iff
\* discount_pct # 0 and a Tax line iff tax_pct # 0
PanelLines(panel, v) ==
    /\ Count(panel, SubtotalOpen) = 1
    /\ Count(panel, TotalOpen) = 1
    /\ Count(panel, DiscountOpen) = Bit(v.discount_pct # 0)
    /\ Count(panel, TaxOpen) = Bit(v.tax_pct # 0)

\* C11: the panel of every pricing block has a Subtotal and a Total line,
\* a Discount line iff discount_pct # 0 and a Tax line iff tax_pct # 0; the
\* percentages are 0 when the block has no discount: / tax: line, and a
\* block with no table row and no such line shows Subtotal $0.00 and
\* Total $0.00 only.  The text after the pricing pass holds these lines.
C11_PanelLines ==
    \A c \in Calls :
        pc[c] = "timeline"
        => LET ms == FindBlocks(text[c], "pricing", 1)
               v == [i \in 1..Len(ms) |->
                        _summarize_pricing_values(BlockContent(text[c], ms[i]))]
           IN  /\ \A i \in 1..Len(ms) :
                      /\ PanelLines(_build_pricing_summary(BlockContent(text[c], ms[i])), v[i])
                      /\ ~HasModifierLine(BlockContent(text[c], ms[i]), DiscountWords)
                         => v[i].discount_pct = 0
                      /\ ~HasModifierLine(BlockContent(text[c], ms[i]), TaxWords)
                         => v[i].tax_pct = 0
                      /\ (v[i].discount_pct = 0 /\ v[i].tax_pct = 0
                              /\ ~HasRowLine(BlockContent(text[c], ms[i])))
                         => _build_pricing_summary(BlockContent(text[c], ms[i]))
                                = <<SummaryOpen, SubtotalOpen, "$0.00", DivClose,
                                    TotalOpen, "$0.00", DivClose, DivClose>>
               /\ Count(block_text[c], SubtotalOpen) = Len(ms)
               /\ Count(block_text[c], TotalOpen) = Len(ms)
               /\ Count(block_text[c], DiscountOpen)
                      = Cardinality({i \in 1..Len(ms) : v[i].discount_pct # 0})
               /\ Count(block_text[c], TaxOpen)
                      = Cardinality({i \in 1..Len(ms) : v[i].tax_pct # 0})

\* a block with Discount: 0% and Tax: 8% has been rendered: a Tax line and
\* no Discount line
C11_Witness ==
    \E c \in Calls :
        /\ pc[c] = "timeline"
        /\ HasSub(text[c], <<"Discount", ":", " ", "0", "%">>)
        /\ Count(block_text[c], TaxOpen) = 1
        /\ Count(block_text[c], DiscountOpen) = 0
        /\ Count(block_text[c], SubtotalOpen) = 1
        /\ HasSub(block_text[c], <<TaxOpen, "8", PctClose, "$0.00", DivClose>>)

\* the lines of a block content, and the content without its i-th line
ContentLines(content) == Split(content, NL)

WithoutLine(content, i) ==
    LET ls == ContentLines(content)
    IN  Join([n \in 1..(Len(ls) - 1) |-> IF n < i THEN ls[n] ELSE ls[n + 1]], NL)

\* the subtotal of a content, in cents
SubtotalOf(content) == _summarize_pricing_values(content).subtotal

\* a separator row: a line with | made of - : | and whitespace only
IsSeparatorRow(line) ==
    /\ Contains(line, "|")
    /\ \A i \in 1..Len(line) : IsSeparatorChar(line[i])

\* a table row that is no separator row
IsItemRow(line) == Contains(line, "|") /\ ~IsSeparatorRow(line)

\* the first non-empty cell of the row holds 'total' in some letter case
FirstCellHasTotal(line) ==
    /\ Len(Cells(line)) >= 1
    /\ \E i \in 1..Len(Cells(line)[1]) : Cells(line)[1][i] \in TotalWords

\* the row has two non-empty cells or more and a last cell that parses
HasAmount(line) ==
    /\ Len(Cells(line)) >= 2
    /\ _parse_money(Cells(line)[Len(Cells(line))]).ok

\* the line is taken as a discount: or tax: line before it is looked at
\* as a row
IsModifierLine(line) ==
    _extract_percent(line, DiscountWords).ok \/ _extract_percent(line, TaxWords).ok

\* the line adds the amount of its last cell to the subtotal of its block
AddsLastCell(content, i) ==
    SubtotalOf(content)
        = SubtotalOf(WithoutLine(content, i))
              + _parse_money(Cells(Strip(ContentLines(content)[i]))
                                 [Len(Cells(Strip(ContentLines(content)[i])))]).val

\* the line adds nothing to the subtotal of its block
AddsNothing(content, i) == SubtotalOf(content) = SubtotalOf(WithoutLine(content, i))

\* the Subtotal lines of the text after the pricing pass show the
\* subtotals of the blocks
SubtotalsShown(c) ==
    \A content \in BlocksOf(text[c], "pricing") :
        HasSub(block_text[c],
               <<SubtotalOpen, _format_money(SubtotalOf(content) * CentUnits), DivClose>>)

\* C12 as stated: a row whose first non-empty cell holds 'total' adds
\* nothing; every other non-separator row with two non-empty cells or more
\* and a parseable last cell adds the amount of that cell.
C12_RowsAsStated ==
    \A c \in Calls :
        pc[c] = "timeline"
        => \A content \in BlocksOf(text[c], "pricing") :
               \A i \in 1..Len(ContentLines(content)) :
                   LET line == Strip(ContentLines(content)[i])
                   IN  /\ (IsItemRow(line) /\ FirstCellHasTotal(line))
                          => AddsNothing(content, i)
                       /\ (IsItemRow(line) /\ ~FirstCellHasTotal(line) /\ HasAmount(line))
                          => AddsLastCell(content, i)

\* C12, amended: the same, for the rows that are not taken as a
\* discount: / tax: line first; such a row adds nothing.
C12_Rows ==
    \A c \in Calls :
        pc[c] = "timeline"
        => /\ SubtotalsShown(c)
           /\ \A content \in BlocksOf(text[c], "pricing") :
               \A i \in 1..Len(ContentLines(content)) :
                   LET line == Strip(ContentLines(content)[i])
                   IN  /\ (IsItemRow(line) /\ FirstCellHasTotal(line))
                          => AddsNothing(content, i)
                       /\ (IsItemRow(line) /\ ~FirstCellHasTotal(line) /\ HasAmount(line)
                               /\ ~IsModifierLine(line))
                          => AddsLastCell(content, i)
                       /\ (IsItemRow(line) /\ IsModifierLine(line))
                          => AddsNothing(content, i)

\* a table with a Subtotal row of $5 and an item row of $10 has been
\* summed to $10.00
C12_Witness ==
    \E c \in Calls :
        /\ pc[c] = "timeline"
        /\ HasSub(text[c], <<"Subtotal", " ", "|", " ", "$", "5">>)
        /\ HasSub(text[c], <<"|", "a", "|", "$", "1", "0", "|">>)
        /\ Count(block_text[c], SummaryOpen) = 1
        /\ HasSub(block_text[c], <<SubtotalOpen, "$10.00", DivClose>>)

\* the header row of a table: the line above a separator row
IsHeaderLine(content, i) ==
    /\ i + 1 <= Len(ContentLines(content))
    /\ IsSeparatorRow(Strip(ContentLines(content)[i + 1]))

\* C19: the header row and the separator row of a pricing table add
\* nothing to the subtotal, whatever the header cells hold.
C19_HeaderAddsNothing ==
    \A c \in Calls :
        pc[c] = "timeline"
        => \A content \in BlocksOf(text[c], "pricing") :
               \A i \in 1..Len(ContentLines(content)) :
                   (IsHeaderLine(content, i) \/ IsSeparatorRow(Strip(ContentLines(content)[i])))
                   => AddsNothing(content, i)

\* a section with at least one line that is not blank
HasLine(section) ==
    \E n \in 1..Len(Split(section, NL)) : Len(Strip(Split(section, NL)[n])) > 0

IsNotBlank(line) == Len(line) > 0

\* the trimmed lines of a section that are not blank, in their order
LinesOfSection(section) ==
    SelectSeq([n \in 1..Len(Split(section, NL)) |-> Strip(Split(section, NL)[n])],
              IsNotBlank)

\* the sections of a signature content that have a line, in their order
LiveSections(content) == SelectSeq(Split(Strip(content), <<"-", "-", "-">>), HasLine)

\* one sub-block per section of live, each with its lines in their order
SubBlocksOf(live) ==
    Cat([k \in 1..Len(live) |->
            <<SigBlockOpen>>
                \o Cat([n \in 1..Len(LinesOfSection(live[k])) |->
                            _render_signature_line(LinesOfSection(live[k])[n])])
                \o <<DivCloseNL>>])

\* C23: the signature renderer emits exactly one sub-block per section
\* between --- separators that has a line which is not blank, in the order
\* of the sections; a section without such a line gives no sub-block, and
\* the lines of a sub-block keep their order.
C23_SignatureSections ==
    \A c \in Calls :
        pc[c] = "assign"
        => LET ms == FindBlocks(text[c], "signature", 1)
           IN  /\ \A j \in 1..Len(ms) :
                      HasSub(block_text[c],
                             <<SigOpen>>
                                 \o SubBlocksOf(LiveSections(BlockContent(text[c], ms[j])))
                                 \o <<DivClose>>)
               /\ Count(block_text[c], SigBlockOpen)
                      = Len(Cat([j \in 1..Len(ms) |->
                                    LiveSections(BlockContent(text[c], ms[j]))]))

\* one signature block of three sections, the second without a line, was
\* rendered with two sub-blocks
C23_Witness ==
    \E c \in Calls :
        /\ pc[c] = "assign"
        /\ Len(FindBlocks(text[c], "signature", 1)) = 1
        /\ HasSub(text[c], <<"\n", "-", "-", "-", "\n", "-", "-", "-", "\n", ">">>)
        /\ Count(block_text[c], SigBlockOpen) = 2
        /\ HasSub(block_text[c],
                  <<DivCloseNL, SigBlockOpen, SigParaOpen, "&gt;", SigParaClose,
                    DivCloseNL, DivClose>>)

\* a table row whose last cell does not parse as a number
LastCellUnparsed(line) ==
    /\ IsItemRow(line)
    /\ Len(Cells(line)) >= 1
    /\ ~_parse_money(Cells(line)[Len(Cells(line))]).ok

\* a row that adds the amount of its last cell (C12)
IsAddingRow(line) ==
    /\ IsItemRow(line)
    /\ ~FirstCellHasTotal(line)
    /\ HasAmount(line)
    /\ ~IsModifierLine(line)

\* C24: a pricing table row whose last cell does not parse as a number
\* adds nothing to the subtotal, and the rows after it are summed as they
\* are without it; the subtotal shown is that sum.
C24_UnparsedRowSkipped ==
    \A c \in Calls :
        pc[c] = "timeline"
        => /\ SubtotalsShown(c)
           /\ \A content \in BlocksOf(text[c], "pricing") :
                  \A i \in 1..Len(ContentLines(content)) :
                      LastCellUnparsed(Strip(ContentLines(content)[i]))
                      => /\ AddsNothing(content, i)
                         /\ \A j \in (i + 1)..Len(ContentLines(content)) :
                                IsAddingRow(Strip(ContentLines(content)[j]))
                                => AddsLastCell(content, j)

\* a table whose first three rows end in 1.2.3, - and 1-2 and whose last
\* row ends in $3 has been summed to $3.00
C24_Witness ==
    \E c \in Calls :
        /\ pc[c] = "timeline"
        /\ Len(FindBlocks(text[c], "pricing", 1)) = 1
        /\ HasSub(text[c], <<"|", "1", ".", "2", ".", "3", "|", "\n">>)
        /\ HasSub(text[c], <<"|", "1", "-", "2", "|", "\n", "|", "x", "|", "$", "3", "|">>)
        /\ HasSub(block_text[c], <<SubtotalOpen, "$3.00", DivClose>>)

\* the content has a line that parses as an entry
HasEntry(content) == Len(_parse_timeline_rows(content).rows) > 0

\* the contents of the timeline blocks the timeline pass of c finds, in
\* their order
TimelineBlocks(c) ==
    [j \in 1..Len(FindBlocks(SubPricing(text[c]), "timeline", 1)) |->
        BlockContent(SubPricing(text[c]),
                     FindBlocks(SubPricing(text[c]), "timeline", 1)[j])]

\* C25: a timeline block none of whose lines parses as an entry is
\* rendered as the wrapper with its heading and the rendered list and with
\* an empty Gantt view: the text holds one sow-gantt container for each
\* block that has an entry and none for the others.
C25_NoEntryNoGantt ==
    \A c \in Calls :
        pc[c] = "signature"
        => /\ \A j \in 1..Len(TimelineBlocks(c)) :
                  ~HasEntry(TimelineBlocks(c)[j])
                  => HasSub(block_text[c],
                            <<TimelineOpen>>
                                \o _render_inner_markdown(TimelineBlocks(c)[j])
                                \o <<"\n", "\n", DivClose>>)
           /\ Count(block_text[c], GanttOpen)
                  = Len(SelectSeq(TimelineBlocks(c), HasEntry))
           /\ Count(block_text[c], TimelineOpen) = Len(TimelineBlocks(c))

\* a timeline block whose only line is '- a' has been rendered: wrapper,
\* heading, list, no Gantt view
C25_Witness ==
    \E c \in Calls :
        /\ pc[c] = "signature"
        /\ text[c] = Block("timeline", <<"-", " ", "a">>)
        /\ block_text[c] = <<TimelineOpen, "-", " ", "a", "\n", "\n", DivClose>>

\* the hundredths of ((a / span) * 100) as :.2f prints them, a >= 0
Hundredths(a, span) == FloatHundredths(FloatMul(FloatDiv(a, span), 100))

\* every entry of the rows runs forward
Forward(rows) == \A i \in 1..Len(rows) : rows[i].start <= rows[i].end

\* the rendered row of an entry with a bar at offset o and of width w, both
\* in hundredths of a percent
RowAt(row, o, w) ==
    <<GanttSpanOpen, ToString(row.start), "-W", ToString(row.end),
      GanttSpanClose, GanttBarOpen, Fixed2(FALSE, o), GanttBarMid,
      Fixed2(FALSE, w), GanttBarClose>>

\* C26: when every parsed entry of a timeline has start <= end, every bar
\* of its Gantt view lies inside its track: offset >= 0, width > 0 and
\* offset + width <= 100; the entry with the least start has offset 0 and
\* the entry with the greatest end has offset + width = 100.
C26_BarsInsideTrack ==
    \A c \in Calls :
        pc[c] = "signature"
        => \A j \in 1..Len(TimelineBlocks(c)) :
               LET rows == _parse_timeline_rows(TimelineBlocks(c)[j]).rows
                   sp == _timeline_span(rows)
               IN  Len(rows) >= 1 /\ Forward(rows)
                   => \A i \in 1..Len(rows) :
                          LET o == Hundredths(rows[i].start - sp.min_start, sp.span)
                              w == Hundredths(rows[i].end - rows[i].start + 1, sp.span)
                          IN  /\ HasSub(block_text[c], RowAt(rows[i], o, w))
                              /\ o >= 0
                              /\ w > 0
                              /\ o + w <= 100 * 100
                              /\ (\A k \in 1..Len(rows) : rows[i].start <= rows[k].start)
                                     => o = 0
                              /\ (\A k \in 1..Len(rows) : rows[k].end <= rows[i].end)
                                     => o + w = 100 * 100

(***************************************************************************)
(* Properties of the sharing plugin.                                       *)
(***************************************************************************)
\* the instants of the requests of the history h, and of those that passed
Instants(h) == [i \in 1..Len(h) |-> h[i].at]
Passed(h) == Instants(SelectSeq(h, LAMBDA e : e.ok))

\* no more than _RATE_LIMIT_PER_WINDOW of the instants h, in their order,
\* lie within _RATE_WINDOW_SECONDS of each other
WindowHolds(h) ==
    \A i \in 1..Len(h) :
        i + _RATE_LIMIT_PER_WINDOW <= Len(h)
        => OlderThan(h[i + _RATE_LIMIT_PER_WINDOW], h[i], _RATE_WINDOW_SECONDS)

\* how many of the instants h are no more than _RATE_WINDOW_SECONDS before now
InWindow(h, now) ==
    Cardinality({i \in 1..Len(h) : ~OlderThan(now, h[i], _RATE_WINDOW_SECONDS)})

\* the step is a request to one of the guarded endpoints
GuardedStep == guarded' # guarded

\* the parsed request fails one of the checks of the publish service
FailsValidation(p) ==
    \/ Len(p.sanitized_html) = 0
    \/ p.signed_only /\ ~p.signed
    \/ p.revision # <<>> /\ p.revision[1] < 1
    \/ p.jurisdiction \notin _ALLOWED_JURISDICTIONS
    \/ p.template \notin _ALLOWED_TEMPLATES
    \/ p.page_size \notin _ALLOWED_PAGE_SIZES

\* the table after the step is the table before it plus one new row
OneRowInserted ==
    \E i \in DOMAIN published_docs' :
        /\ i \notin DOMAIN published_docs
        /\ DOMAIN published_docs' = DOMAIN published_docs \cup {i}
        /\ \A j \in DOMAIN published_docs : published_docs'[j] = published_docs[j]

Viewable(db, id) == id \in DOMAIN db /\ db[id].deleted = 0

\* the expiry time of a row is before the instant now
Expired(row, now) == TimeLess(fromisoformat(row.expires_at), now)

\* C14: a public view is answered 404 when the id is unknown or the
\* document is soft-deleted, otherwise 410 when its expiry time is before
\* now, otherwise 200; on 200 the views of that document grow by exactly 1
\* and nothing else changes, on 404 and 410 the table is left as it was.
C14_PublicView ==
    [][(request'.op = "view" /\ clock' = clock)
       => LET id == _normalize_doc_id(request'.raw)
          IN  /\ response'.status =
                    IF ~Viewable(published_docs, id) THEN 404
                    ELSE IF Expired(published_docs[id], clock) THEN 410
                    ELSE 200
              /\ response'.status = 200
                 => published_docs' =
                        [published_docs EXCEPT ![id].views = @ + 1]
              /\ response'.status \in {404, 410}
                 => published_docs' = published_docs]_vars

\* a document that was viewed once was asked for after its expiry and
\* answered with 410
C14_Witness ==
    /\ response.op = "view"
    /\ response.status = 410
    /\ response.publish_id \in DOMAIN published_docs
    /\ published_docs[response.publish_id].views = 1

\* the rows whose deleted flag the step turns from 0 to 1
Flipped ==
    {i \in DOMAIN published_docs :
        /\ published_docs[i].deleted = 0
        /\ i \in DOMAIN published_docs'
        /\ published_docs'[i].deleted = 1}

\* C16: after a cleanup at the instant now every document whose expiry
\* time is before now is soft-deleted and the deleted flag of every other
\* document is unchanged; cleaned is the number of flags turned from 0 to
\* 1, scanned the number of documents that were not deleted before, and
\* cleaned <= scanned; a cleanup that follows a cleanup at the same instant
\* reports cleaned = 0.
C16_Cleanup ==
    [][(request'.op = "cleanup" /\ clock' = clock)
       => /\ DOMAIN published_docs' = DOMAIN published_docs
          /\ \A i \in DOMAIN published_docs :
                 IF Expired(published_docs[i], clock)
                 THEN published_docs'[i].deleted = 1
                 ELSE published_docs'[i].deleted = published_docs[i].deleted
          /\ response'.cleaned = Cardinality(Flipped)
          /\ response'.scanned =
                 Cardinality({i \in DOMAIN published_docs :
                                 published_docs[i].deleted = 0})
          /\ response'.cleaned <= response'.scanned
          /\ (request.op = "cleanup" /\ response.timestamp = isoformat(clock))
                 => response'.cleaned = 0]_vars

\* a cleanup found two documents not deleted, soft-deleted the expired one
\* and left the other
C16_Witness ==
    /\ response.op = "cleanup"
    /\ response.cleaned = 1
    /\ response.scanned = 2
    /\ \E i \in DOMAIN published_docs :
           /\ published_docs[i].deleted = 1
           /\ TextLess(published_docs[i].expires_at, response.timestamp)
    /\ \E i \in DOMAIN published_docs : published_docs[i].deleted = 0

\* a position of h inside a tag: a '<' before it with no '>' in between
InTag(h, p) ==
    \E q \in 1..(p - 1) : h[q] = "<" /\ \A k \in q..p : h[k] # ">"

\* <script, whatever the case
HasScriptTag(h) ==
    \E p \in 1..Len(h) : LitAt(h, p, <<"<", "s", "c", "r", "i", "p", "t">>)

\* an attribute on...= inside a tag
HasHandler(h) ==
    \E p \in 2..Len(h) :
        /\ ~IsWordChar(h[p - 1])
        /\ LitAt(h, p, <<"o", "n">>)
        /\ SkipWordChars(h, p + 2) > p + 2
        /\ SkipSpace(h, SkipWordChars(h, p + 2)) <= Len(h)
        /\ h[SkipSpace(h, SkipWordChars(h, p + 2))] = "="
        /\ InTag(h, p)

\* javascript: whatever the case
HasProtocol(h) ==
    \E p \in 1..Len(h) :
        /\ LitAt(h, p, JavaScript)
        /\ p + Len(JavaScript) <= Len(h)
        /\ h[p + Len(JavaScript)] = ":"

\* C15: the html stored for a published document holds no <script tag, no
\* inline on...= event-handler attribute and no javascript: protocol,
\* whatever the case of the letters and whatever html was submitted.
C15_StoredHtmlClean ==
    \A i \in DOMAIN published_docs :
        /\ ~HasScriptTag(published_docs[i].html)
        /\ ~HasHandler(published_docs[i].html)
        /\ ~HasProtocol(published_docs[i].html)
\* C27: for each client, of the requests to the guarded endpoints (publish
\* and email, one queue per client) no more than 20 pass the rate-limit
\* guard within any 60 seconds, and a request of a client that comes when 20
\* of its requests have passed within the last 60 seconds is answered 429.
C27_RateLimit ==
    [][/\ \A ip \in ClientIps : WindowHolds(Passed(guarded'[ip]))
       /\ GuardedStep
              /\ InWindow(Passed(guarded[request'.ip]), clock)
                     >= _RATE_LIMIT_PER_WINDOW
          => /\ response'.status = 429
             /\ response'.error = "Too many requests"
             /\ Passed(guarded'[request'.ip]) = Passed(guarded[request'.ip])]_vars

\* twenty requests of a client, to both endpoints, have passed at one
\* instant and a further one has been answered 429; the other client is served
C27_Witness ==
    /\ Len(Passed(guarded["ip1"])) = _RATE_LIMIT_PER_WINDOW
    /\ Len(rate_events["ip1"]) > _RATE_LIMIT_PER_WINDOW
    /\ \E i, j \in 1..Len(rate_events["ip1"]) : i # j
    /\ response.status = 429
    /\ request.ip = "ip1"
    /\ Len(Passed(guarded["ip2"])) > 0

\* the step is the request op for the document id
RequestFor(op, id) ==
    /\ clock' = clock
    /\ request'.op = op
    /\ _normalize_doc_id(request'.raw) = id

\* C28: a document with deleted = 1 keeps its row and deleted = 1 under
\* every publish, view, email, delete and cleanup; a further delete of it is
\* answered 404, its public view is answered 404 (not 200, not 410, expired
\* or not), and the metadata lookup still answers with its row.
C28_SoftDeletePermanent ==
    [][\A id \in DOMAIN published_docs :
           published_docs[id].deleted = 1
           => /\ id \in DOMAIN published_docs'
              /\ published_docs'[id] = published_docs[id]
              /\ RequestFor("delete", id)
                     => response'.status = 404 /\ response'.error = "Not found"
              /\ RequestFor("view", id)
                     => response'.status = 404 /\ response'.error = "Not found"
              /\ RequestFor("metadata", id)
                     => /\ response'.status = 200
                        /\ Len(response'.document) = 1
                        /\ response'.document[1].deleted = 1
                        /\ response'.document[1].created_at
                               = published_docs[id].created_at]_vars

\* the deleted and expired document tokA has been looked up: the answer
\* holds its row
C28_Witness ==
    /\ <<"tokA">> \in DOMAIN published_docs
    /\ published_docs[<<"tokA">>].deleted = 1
    /\ Expired(published_docs[<<"tokA">>], clock)
    /\ request.op = "metadata"
    /\ response.status = 200
    /\ response.document[1].deleted = 1

\* every request of the history h is more than _RATE_WINDOW_SECONDS before now
Silent(h, now) ==
    \A i \in 1..Len(h) : OlderThan(now, h[i].at, _RATE_WINDOW_SECONDS)

\* C29: whatever the requests of a client were, a request that comes more
\* than 60 seconds after its last one passes the rate-limit guard; and
\* since rejected requests count as well, a request of a client that has sent
\* 20 or more requests within the last 60 seconds, passed or not, is not
\* admitted.
C29_Recoverable ==
    [][GuardedStep
       => /\ (Len(guarded[request'.ip]) > 0 /\ Silent(guarded[request'.ip], clock))
                 => /\ response'.error # "Too many requests"
                    /\ guarded'[request'.ip][Len(guarded'[request'.ip])].ok
          /\ InWindow(Instants(guarded[request'.ip]), clock) >= _RATE_LIMIT_PER_WINDOW
                 => /\ response'.status = 429
                    /\ ~guarded'[request'.ip][Len(guarded'[request'.ip])].ok]_vars

\* a client whose last request, at the start, was rejected has been silent
\* for more than 60 seconds, and its next request has passed
C29_Witness ==
    /\ Len(guarded["ip1"]) > _RATE_LIMIT_PER_WINDOW + 1
    /\ guarded["ip1"][Len(guarded["ip1"])] = [at |-> MinuteAndHalf, ok |-> TRUE]
    /\ guarded["ip1"][Len(guarded["ip1"]) - 1].at = Epoch
    /\ ~guarded["ip1"][Len(guarded["ip1"]) - 1].ok
    /\ response.status # 429
    /\ clock = MinuteAndHalf

\* how often the instant t is in the sequence of instants q
Times(q, t) == Cardinality({i \in 1..Len(q) : q[i] = t})

\* C30: when two requests of one client run the rate-limit guard side by
\* side on the shared queue, popleft removes only events more than 60
\* seconds older than the `now` of the thread that pops, no thread reads the
\* head of or pops from an empty queue, and when no thread is in the guard
\* the queue holds every request of the last 60 seconds exactly once.
C30_GuardRace ==
    [][/\ \A w \in Workers :
              /\ guard_pc[w] = "pop" /\ guard_pc'[w] = "test"
                     => OlderThan(guard_now[w], Head(rate_events[RaceRequest.ip]),
                                  _RATE_WINDOW_SECONDS)
              /\ guard_pc'[w] # "raised"
       /\ (\A w \in Workers : guard_pc'[w] = "idle")
              => \A i \in 1..Len(guarded'[RaceRequest.ip]) :
                     LET t == guarded'[RaceRequest.ip][i].at
                     IN  ~OlderThan(clock', t, _RATE_WINDOW_SECONDS)
                         => Times(rate_events'[RaceRequest.ip], t)
                                = Times(Instants(guarded'[RaceRequest.ip]), t)]_vars

====
